---- MODULE Spec2Model ----
(***************************************************************************)
(* Model of kasunvimarshana/file-sharing-app, a remote desktop: the wire    *)
(* protocol (src/shared/protocol.py), the connection manager               *)
(* (src/shared/network.py), the server's broadcast loop, screen capturer   *)
(* and diff compression (src/server), the client's input path (src/client).*)
(*                                                                         *)
(* The variable `scenario` says what a behaviour is about:                 *)
(*   "wire"    one stream socket, a peer that writes frames on it and a    *)
(*             caller that calls read_message on it again and again;       *)
(*   "send"    two threads inside NetworkManager.send_message on a socket; *)
(*   "server"  one NetworkManager started with start_server;               *)
(*   "client"  one NetworkManager started with connect;                    *)
(*   "capture" one ScreenCapturer and a clock;                             *)
(*   "diff"    one compress_diff / decompress_diff round trip;             *)
(*   "input"   mouse events on the client controller and an InputSender.   *)
(* A behaviour stays in the scenario its initial state chose.              *)
(* Specifications: SpecWire, SpecSend, SpecConn (start, stop, send_message *)
(* called from several threads, the server's broadcast thread, the         *)
(* client's input thread), SpecRecv (callbacks                             *)
(* and messages arriving for the receive loops), Spec (wire and            *)
(* receiving), SpecCapture, SpecDiff, SpecInput.                           *)
(***************************************************************************)
EXTENDS Integers, Sequences, FiniteSets, TLC

(***************************************************************************)
(* Bounds of the model.                                                    *)
(***************************************************************************)
\* frames the peer writes on one stream
MaxMsgs == 2
\* short writes one sendall call may make before its last write
MaxShortWrites == 1
\* calls of stop and send_message the API threads make, all together
MaxCalls == 2
\* messages the peers have queued on the connections, all together
MaxInbound == 2

(***************************************************************************)
(* Bytes and text.  A byte string is a sequence of naturals below 256.     *)
(***************************************************************************)
Min(a, b) == IF a < b THEN a ELSE b

\* struct.pack('!I', n): four bytes, most significant first
PackU32(n) ==
    << (n \div 16777216) % 256, (n \div 65536) % 256, (n \div 256) % 256, n % 256 >>

\* struct.unpack('!I', b) at offset off (0-based) of byte string b
UnpackU32(b, off) ==
    b[off + 1] * 16777216 + b[off + 2] * 65536 + b[off + 3] * 256 + b[off + 4]

\* ASCII codes used by the JSON text
ChLBrace == 123
ChRBrace == 125
ChLBrack == 91
ChRBrack == 93
ChQuote == 34
ChColon == 58
ChComma == 44
ChSpace == 32
ChZero == 48
ChBackslash == 92
ChMinus == 45
ChPlus == 43
ChDot == 46
ChLowerE == 101
ChUpperE == 69
ChLowerU == 117
\* U+FEFF, the byte order mark
ChBom == 65279

\* the code points of the words json writes and reads, and of the words the
\* input handlers look for
Word(w) ==
    CASE w = "true" -> << 116, 114, 117, 101 >>
      [] w = "false" -> << 102, 97, 108, 115, 101 >>
      [] w = "null" -> << 110, 117, 108, 108 >>
      [] w = "NaN" -> << 78, 97, 78 >>
      [] w = "Infinity" -> << 73, 110, 102, 105, 110, 105, 116, 121 >>
      [] w = "action" -> << 97, 99, 116, 105, 111, 110 >>
      [] w = "pos" -> << 112, 111, 115 >>
      [] w = "button" -> << 98, 117, 116, 116, 111, 110 >>
      [] w = "sub_action" -> << 115, 117, 98, 95, 97, 99, 116, 105, 111, 110 >>
      [] w = "amount" -> << 97, 109, 111, 117, 110, 116 >>
      [] w = "clicks" -> << 99, 108, 105, 99, 107, 115 >>
      [] w = "key" -> << 107, 101, 121 >>
      [] w = "move" -> << 109, 111, 118, 101 >>
      [] w = "click" -> << 99, 108, 105, 99, 107 >>
      [] w = "drag" -> << 100, 114, 97, 103 >>
      [] w = "scroll" -> << 115, 99, 114, 111, 108, 108 >>
      [] w = "press" -> << 112, 114, 101, 115, 115 >>
      [] w = "down" -> << 100, 111, 119, 110 >>
      [] w = "up" -> << 117, 112 >>
      [] w = "write" -> << 119, 114, 105, 116, 101 >>
      [] w = "left" -> << 108, 101, 102, 116 >>
      [] w = "hover" -> << 104, 111, 118, 101, 114 >>
      [] w = "a" -> << 97 >>

(***************************************************************************)
(* Python values that json can carry.  Every value is a record of the same *)
(* shape; `t` is the Python type.                                          *)
(*   int    n is the sign (1 or -1) and s the decimal digits, without      *)
(*          leading zeros: Python integers have no width;                  *)
(*   float  a finite float, a binary64, written as repr writes it, the     *)
(*          decimal n * s * 10^e: n is the sign, s the significant digits  *)
(*          without leading and trailing zeros (empty for 0.0 and -0.0),   *)
(*          e the power of ten of the last digit.  The digits are those of *)
(*          the shortest decimal that float() takes to this binary64, so   *)
(*          two floats are equal when they are written alike;              *)
(*   nan, inf   the floats nan, inf (n = 1) and -inf (n = -1);             *)
(*   str    s is the sequence of the code points of the string;            *)
(*   list, tuple   a list and a tuple of items: json writes both as an     *)
(*          array, and reads an array as a list;                           *)
(*   dict   a dict with string keys.  It keeps its insertion order, so its *)
(*          items are a sequence of [k, v] pairs with distinct keys.       *)
(***************************************************************************)
JValue(t, n, s, items, e) == [t |-> t, n |-> n, s |-> s, items |-> items, e |-> e]

\* str(n) of an integer: the decimal digits after the sign
RECURSIVE Digits(_)
Digits(n) == IF n < 0 THEN << ChMinus >> \o Digits(-n)
             ELSE IF n < 10 THEN << ChZero + n >>
             ELSE Digits(n \div 10) \o << ChZero + (n % 10) >>

JInt(n) == JValue("int", IF n < 0 THEN -1 ELSE 1, Digits(IF n < 0 THEN -n ELSE n), <<>>, 0)
JFloat(sign, digits, e) == JValue("float", sign, digits, <<>>, e)
JNaN == JValue("nan", 1, <<>>, <<>>, 0)
JInf(sign) == JValue("inf", sign, <<>>, <<>>, 0)
JStr(s) == JValue("str", 0, s, <<>>, 0)
JTrue == JValue("true", 0, <<>>, <<>>, 0)
JFalse == JValue("false", 0, <<>>, <<>>, 0)
JNull == JValue("null", 0, <<>>, <<>>, 0)
JList(items) == JValue("list", 0, <<>>, items, 0)
JTuple(items) == JValue("tuple", 0, <<>>, items, 0)
JDict(pairs) == JValue("dict", 0, <<>>, pairs, 0)
JPair(k, v) == [k |-> k, v |-> v]

(***************************************************************************)
(* json.dumps(value) with its defaults: ensure_ascii, the separators ', '  *)
(* and ': ', allow_nan.                                                    *)
(***************************************************************************)
\* encode_basestring_ascii(s): the string between quotes, escaped.  '"', '\'
\* and the control characters with a short name get their two-character
\* escape, the printable ASCII characters are copied, every other character
\* becomes \uXXXX (lower-case hexadecimal digits), as a surrogate pair above
\* U+FFFF
EncodeString(s) ==
    LET HexDigit(d) == IF d < 10 THEN ChZero + d ELSE 87 + d
        EscapeU(n) ==
            << ChBackslash, ChLowerU, HexDigit(n \div 4096), HexDigit((n \div 256) % 16),
               HexDigit((n \div 16) % 16), HexDigit(n % 16) >>
        EscapeChar(c) ==
            IF c = ChQuote THEN << ChBackslash, ChQuote >>
            ELSE IF c = ChBackslash THEN << ChBackslash, ChBackslash >>
            ELSE IF c = 10 THEN << ChBackslash, 110 >>
            ELSE IF c = 13 THEN << ChBackslash, 114 >>
            ELSE IF c = 9 THEN << ChBackslash, 116 >>
            ELSE IF c = 12 THEN << ChBackslash, 102 >>
            ELSE IF c = 8 THEN << ChBackslash, 98 >>
            ELSE IF c >= 32 /\ c <= 126 THEN << c >>
            ELSE IF c < 65536 THEN EscapeU(c)
            ELSE EscapeU(55296 + ((c - 65536) \div 1024))
                 \o EscapeU(56320 + ((c - 65536) % 1024))
        \* the characters s[lo .. hi] escaped, one after the other
        RECURSIVE EscapeChars(_, _)
        EscapeChars(lo, hi) ==
            IF lo > hi THEN <<>>
            ELSE IF lo = hi THEN EscapeChar(s[lo])
            ELSE EscapeChars(lo, (lo + hi) \div 2) \o EscapeChars((lo + hi) \div 2 + 1, hi)
    IN << ChQuote >> \o EscapeChars(1, Len(s)) \o << ChQuote >>

\* float.__repr__ of a finite float: positional notation when the decimal
\* point falls within the digits or at most 16 places to their right or 4 to
\* their left, the exponent notation (at least two exponent digits) otherwise
FloatRepr(v) ==
    LET Zeros(n) == [i \in 1 .. n |-> ChZero]
        Abs(n) == IF n < 0 THEN -n ELSE n
        \* k the number of digits, decpt the place of the decimal point after
        \* the first digits, ex the digits of the exponent
        Repr(k, decpt, ex) ==
            IF k = 0 THEN << ChZero, ChDot, ChZero >>
            ELSE IF decpt > 16 \/ decpt < -3
                 THEN << v.s[1] >>
                      \o (IF k > 1 THEN << ChDot >> \o SubSeq(v.s, 2, k) ELSE <<>>)
                      \o << ChLowerE, IF decpt - 1 < 0 THEN ChMinus ELSE ChPlus >>
                      \o (IF Len(ex) < 2 THEN << ChZero >> ELSE <<>>) \o ex
            ELSE IF decpt <= 0 THEN << ChZero, ChDot >> \o Zeros(-decpt) \o v.s
            ELSE IF decpt >= k THEN v.s \o Zeros(decpt - k) \o << ChDot, ChZero >>
            ELSE SubSeq(v.s, 1, decpt) \o << ChDot >> \o SubSeq(v.s, decpt + 1, k)
    IN (IF v.n < 0 THEN << ChMinus >> ELSE <<>>)
       \o Repr(Len(v.s), Len(v.s) + v.e, Digits(Abs(Len(v.s) + v.e - 1)))

\* sys.getrecursionlimit(): the levels of calls that Python allows
RecursionLimit == 1000
\* the levels json.dumps and json.loads use up before they come to the value:
\* dumps, encode, iterencode (loads, decode, raw_decode) and the encoder (the
\* scanner)
JsonLevels == 4
\* sys.get_int_max_str_digits(): the most digits str(int) and int(str) take
MaxStrDigits == 4300

\* how many containers (lists, dicts) deep a value may be for json.dumps and
\* json.loads called where frames levels are in use (1 at the top level of a
\* module, one more inside every function called): a container costs a
\* level.  Below 0 not even the call is possible.
MaxNesting(frames) == RecursionLimit - JsonLevels - frames
\* the levels it takes to raise JSONDecodeError: the call of the class, its
\* __init__ and the calls in it
ErrorLevels == 3
\* the levels MessageType(value) takes: the call of the class, __call__,
\* __new__ and the lookup of the value
EnumLevels == 4

\* json.dumps(v) called where frames levels are in use: [ok, s, err], the
\* text s, or the exception err raised: "RecursionError" by a value nested
\* too deep, "ValueError" by an int of more than MaxStrDigits digits,
\* whichever the encoder meets first.  The items of a container are written
\* one level further in; a str that is the whole value is written by encode,
\* one level before the encoder.
RECURSIVE json_dumps(_, _)
\* the items lo .. hi of a list or of a dict, each after its separator
RECURSIVE DumpItems(_, _, _, _, _)
DumpItems(items, isDict, lo, hi, frames) ==
    LET One(r) ==
            IF ~r.ok THEN r
            ELSE [ok |-> TRUE, err |-> "none",
                  s |-> (IF lo > 1 THEN << ChComma, ChSpace >> ELSE <<>>)
                        \o (IF isDict THEN EncodeString(items[lo].k) \o << ChColon, ChSpace >>
                            ELSE <<>>)
                        \o r.s]
        Both(l, r) ==
            IF ~l.ok THEN l ELSE IF ~r.ok THEN r
            ELSE [ok |-> TRUE, err |-> "none", s |-> l.s \o r.s]
    IN IF lo > hi THEN [ok |-> TRUE, err |-> "none", s |-> <<>>]
       ELSE IF lo = hi
            THEN One(json_dumps(IF isDict THEN items[lo].v ELSE items[lo], frames))
       ELSE Both(DumpItems(items, isDict, lo, (lo + hi) \div 2, frames),
                 DumpItems(items, isDict, (lo + hi) \div 2 + 1, hi, frames))
json_dumps(v, frames) ==
    LET Text(s) == [ok |-> TRUE, err |-> "none", s |-> s]
        Raise(err) == [ok |-> FALSE, err |-> err, s |-> <<>>]
        Within(open, r, close) == IF r.ok THEN Text(<< open >> \o r.s \o << close >>) ELSE r
    IN IF MaxNesting(frames) < (IF v.t = "str" THEN -1 ELSE 0) THEN Raise("RecursionError")
       ELSE CASE v.t = "int" ->
                   IF Len(v.s) > MaxStrDigits THEN Raise("ValueError")
                   ELSE Text((IF v.n < 0 THEN << ChMinus >> ELSE <<>>) \o v.s)
              [] v.t = "float" -> Text(FloatRepr(v))
              [] v.t = "nan" -> Text(Word("NaN"))
              [] v.t = "inf" -> Text((IF v.n < 0 THEN << ChMinus >> ELSE <<>>) \o Word("Infinity"))
              [] v.t = "str" -> Text(EncodeString(v.s))
              [] v.t = "true" -> Text(Word("true"))
              [] v.t = "false" -> Text(Word("false"))
              [] v.t = "null" -> Text(Word("null"))
              [] v.t \in { "list", "tuple", "dict" } ->
                   IF MaxNesting(frames) < 1 THEN Raise("RecursionError")
                   ELSE IF v.t \in { "list", "tuple" }
                        THEN Within(ChLBrack,
                                    DumpItems(v.items, FALSE, 1, Len(v.items), frames + 1),
                                    ChRBrack)
                   ELSE Within(ChLBrace, DumpItems(v.items, TRUE, 1, Len(v.items), frames + 1),
                               ChRBrace)

(***************************************************************************)
(* str.encode('utf-8') and bytes.decode('utf-8').                          *)
(***************************************************************************)
\* s.encode('utf-8'): [ok, b], ok false for the UnicodeEncodeError a
\* surrogate (U+D800 .. U+DFFF) raises
utf8_encode(s) ==
    LET \* the bytes of one code point
        Utf8Char(c) ==
            IF c < 128 THEN << c >>
            ELSE IF c < 2048 THEN << 192 + (c \div 64), 128 + (c % 64) >>
            ELSE IF c < 65536
                 THEN << 224 + (c \div 4096), 128 + ((c \div 64) % 64), 128 + (c % 64) >>
            ELSE << 240 + (c \div 262144), 128 + ((c \div 4096) % 64),
                    128 + ((c \div 64) % 64), 128 + (c % 64) >>
        \* the bytes of the characters s[lo .. hi], one after the other
        RECURSIVE Utf8Chars(_, _)
        Utf8Chars(lo, hi) ==
            IF lo > hi THEN <<>>
            ELSE IF lo = hi THEN Utf8Char(s[lo])
            ELSE Utf8Chars(lo, (lo + hi) \div 2) \o Utf8Chars((lo + hi) \div 2 + 1, hi)
    IN IF \E i \in DOMAIN s : s[i] >= 55296 /\ s[i] <= 57343
       THEN [ok |-> FALSE, b |-> <<>>]
       ELSE [ok |-> TRUE, b |-> Utf8Chars(1, Len(s))]

\* b.decode('utf-8'): [ok, s], ok false for the UnicodeDecodeError of bytes
\* that are not UTF-8.  The bytes are UTF-8 when a whole sequence begins at
\* every byte that is not a continuation byte, and every continuation byte
\* belongs to one: the first byte is none, and none follows a whole sequence.
utf8_decode(b) ==
    LET \* b[i] is a continuation byte
        IsCont(i) == i <= Len(b) /\ b[i] >= 128 /\ b[i] <= 191
        \* the number of bytes of the sequence that the lead byte c begins, 0
        \* when c begins none (a continuation byte, 0xC0, 0xC1, 0xF5 and above)
        Utf8Len(c) ==
            IF c < 128 THEN 1
            ELSE IF c >= 194 /\ c <= 223 THEN 2
            ELSE IF c >= 224 /\ c <= 239 THEN 3
            ELSE IF c >= 240 /\ c <= 244 THEN 4
            ELSE 0
        \* a whole sequence begins at i: the lead byte has its continuation
        \* bytes, and the second byte keeps out the overlong forms, the
        \* surrogates and the code points above U+10FFFF
        Utf8SeqAt(i) ==
            /\ Utf8Len(b[i]) > 0
            /\ \A j \in (i + 1) .. (i + Utf8Len(b[i]) - 1) : IsCont(j)
            /\ (b[i] = 224 => b[i + 1] >= 160)
            /\ (b[i] = 237 => b[i + 1] <= 159)
            /\ (b[i] = 240 => b[i + 1] >= 144)
            /\ (b[i] = 244 => b[i + 1] <= 143)
        \* the code point of the sequence that begins at i
        Utf8Point(i) ==
            IF b[i] < 128 THEN b[i]
            ELSE IF b[i] < 224 THEN (b[i] - 192) * 64 + (b[i + 1] - 128)
            ELSE IF b[i] < 240
                 THEN (b[i] - 224) * 4096 + (b[i + 1] - 128) * 64 + (b[i + 2] - 128)
            ELSE (b[i] - 240) * 262144 + (b[i + 1] - 128) * 4096 + (b[i + 2] - 128) * 64
                 + (b[i + 3] - 128)
        \* the characters of the sequences that begin in b[lo .. hi]
        RECURSIVE Utf8Points(_, _)
        Utf8Points(lo, hi) ==
            IF lo > hi THEN <<>>
            ELSE IF lo = hi THEN (IF IsCont(lo) THEN <<>> ELSE << Utf8Point(lo) >>)
            ELSE Utf8Points(lo, (lo + hi) \div 2) \o Utf8Points((lo + hi) \div 2 + 1, hi)
    IN IF /\ \A i \in DOMAIN b :
                ~IsCont(i) => (Utf8SeqAt(i) /\ ~IsCont(i + Utf8Len(b[i])))
          /\ ~IsCont(1)
       THEN [ok |-> TRUE, s |-> Utf8Points(1, Len(b))]
       ELSE [ok |-> FALSE, s |-> <<>>]

(***************************************************************************)
(* json.loads(text): the scanner of the json module (json/scanner.py,      *)
(* json/decoder.py and their C versions), a recursive-descent reader of    *)
(* objects, arrays, strings with their escapes, numbers with sign,         *)
(* fraction and exponent, true, false, null, NaN, Infinity and -Infinity,  *)
(* with optional white space where the grammar allows it.  The text is a   *)
(* sequence of code points.  A parse result is [ok, v, i]: i is the index  *)
(* after the value, err the exception raised when ok is false: text        *)
(* outside this grammar is a "JSONDecodeError", an int of more than        *)
(* MaxStrDigits digits a "ValueError", a container nested deeper than      *)
(* MaxNesting a "RecursionError", whichever the scanner meets first.       *)
(***************************************************************************)
IsDigit(c) == c >= 48 /\ c <= 57
ParseFail(err) == [ok |-> FALSE, v |-> JNull, i |-> 0, err |-> err]
ParseOk(v, i) == [ok |-> TRUE, v |-> v, i |-> i, err |-> "none"]
\* the scanner raising JSONDecodeError where frames levels are in use: there
\* have to be the levels left that raising it takes
DecodeError(frames) ==
    ParseFail(IF MaxNesting(frames) < ErrorLevels THEN "RecursionError" ELSE "JSONDecodeError")

\* the index of the first character at or after i that is not white space,
\* Len(b) + 1 when there is none
SkipWs(b, i) ==
    LET IsWs(c) == c \in {32, 9, 10, 13}
    IN
    IF \E j \in i .. Len(b) : ~IsWs(b[j])
    THEN CHOOSE j \in i .. Len(b) : ~IsWs(b[j]) /\ \A k \in i .. (j - 1) : IsWs(b[k])
    ELSE Len(b) + 1

\* b[i .. i+Len(w)-1] = w
HasWord(b, i, w) == i + Len(w) - 1 <= Len(b) /\ SubSeq(b, i, i + Len(w) - 1) = w

\* the value of the four hexadecimal digits at i
Hex4Val(b, i) ==
    LET HexVal(c) == IF IsDigit(c) THEN c - 48 ELSE IF c >= 97 THEN c - 87 ELSE c - 55
    IN HexVal(b[i]) * 4096 + HexVal(b[i + 1]) * 256 + HexVal(b[i + 2]) * 16
       + HexVal(b[i + 3])

\* b[p] is the backslash that begins an escape of the string that starts at
\* i: of the backslashes that run up to it, every second one is escaped.
\* run is the number of backslashes that run up to b[p] without a break,
\* b[p] included, counted from the first character i of the string.
BeginsEscape(b, i, p) ==
    LET run == CHOOSE r \in 0 .. (p - i + 1) :
                  /\ \A k \in (p - r + 1) .. p : b[k] = ChBackslash
                  /\ (r = p - i + 1 \/ b[p - r] # ChBackslash)
    IN p >= i /\ p <= Len(b) /\ b[p] = ChBackslash /\ run % 2 = 1

\* scanstring: the index of the closing quote of a string whose first character
\* is at i, or 0 when the string is not closed, or holds before its closing
\* quote a control character (below U+0020) or a backslash that does not
\* begin an escape.  The closing quote is the first quote that is not escaped.
StringEnd(b, i) ==
    LET \* b[q] is a quote that no backslash escapes
        Closes(q) == b[q] = ChQuote /\ ~BeginsEscape(b, i, q - 1)
        \* four hexadecimal digits at h
        IsHex(c) == IsDigit(c) \/ (c >= 97 /\ c <= 102) \/ (c >= 65 /\ c <= 70)
        HasHex4(h) == h + 3 <= Len(b) /\ \A j \in h .. (h + 3) : IsHex(b[j])
        \* the escape that begins at p is one that scanstring takes: the
        \* backslash is followed by one of " \ / b f n r t or by uXXXX
        GoodEscape(p) ==
            /\ p + 1 <= Len(b)
            /\ \/ b[p + 1] \in {34, 92, 47, 98, 102, 110, 114, 116}
               \/ (b[p + 1] = ChLowerU /\ HasHex4(p + 2))
        \* e, the first quote that closes, when the characters before it are
        \* those of a string
        Checked(e) ==
            IF \A p \in i .. (e - 1) : b[p] >= 32 /\ (BeginsEscape(b, i, p) => GoodEscape(p))
            THEN e ELSE 0
    IN IF ~\E q \in i .. Len(b) : Closes(q) THEN 0
       ELSE Checked(CHOOSE q \in i .. Len(b) :
                       Closes(q) /\ \A k \in i .. (q - 1) : ~Closes(k))

\* scanstring: the characters of the string b[i .. e-1], e its closing quote
StringChars(b, i, e) ==
    LET \* the escape \uXXXX begins at p, before e, with XXXX in lo .. hi
        IsEscapeU(p, lo, hi) ==
            /\ p + 5 < e /\ BeginsEscape(b, i, p) /\ b[p + 1] = ChLowerU
            /\ Hex4Val(b, p + 2) >= lo /\ Hex4Val(b, p + 2) <= hi
        \* b[p-1], or b[p-5 .. p-2] after \u, is what the escape before b[p] holds
        InEscape(p) ==
            \/ BeginsEscape(b, i, p - 1)
            \/ \E k \in 2 .. 5 : BeginsEscape(b, i, p - k) /\ b[p - k + 1] = ChLowerU
        \* the character a two-character escape stands for
        Unescaped(c) ==
            IF c = 98 THEN 8 ELSE IF c = 102 THEN 12 ELSE IF c = 110 THEN 10
            ELSE IF c = 114 THEN 13 ELSE IF c = 116 THEN 9 ELSE c
        \* what b[p] gives to the string: a plain character gives itself, the
        \* backslash of an escape what the escape stands for, the characters
        \* an escape holds nothing; a \uXXXX high surrogate followed by a
        \* \uXXXX low surrogate gives one character, and that low surrogate
        \* nothing
        CharAt(p) ==
            IF BeginsEscape(b, i, p)
            THEN IF b[p + 1] # ChLowerU THEN << Unescaped(b[p + 1]) >>
                 ELSE IF /\ IsEscapeU(p, 56320, 57343)
                         /\ IsEscapeU(p - 6, 55296, 56319)
                      THEN <<>>
                 ELSE IF /\ IsEscapeU(p, 55296, 56319)
                         /\ IsEscapeU(p + 6, 56320, 57343)
                      THEN << 65536 + (Hex4Val(b, p + 2) - 55296) * 1024
                                    + (Hex4Val(b, p + 8) - 56320) >>
                 ELSE << Hex4Val(b, p + 2) >>
            ELSE IF InEscape(p) THEN <<>>
            ELSE << b[p] >>
        \* what b[lo .. hi] gives to the string
        RECURSIVE CharsIn(_, _)
        CharsIn(lo, hi) ==
            IF lo > hi THEN <<>>
            ELSE IF lo = hi THEN CharAt(lo)
            ELSE CharsIn(lo, (lo + hi) \div 2) \o CharsIn((lo + hi) \div 2 + 1, hi)
    IN CharsIn(i, e - 1)

\* the index after the run of digits that starts at i
DigitsEnd(b, i) ==
    IF \E j \in i .. Len(b) : ~IsDigit(b[j])
    THEN CHOOSE j \in i .. Len(b) : ~IsDigit(b[j]) /\ \A k \in i .. (j - 1) : IsDigit(b[k])
    ELSE Len(b) + 1

\* the decimal exponents from which on binary64 rounds to inf (1e309 is more
\* than the largest float) and to zero (1e-324 is less than half the
\* smallest float)
OverflowPoint == 309
UnderflowPoint == -323

(***************************************************************************)
(* Decimal arithmetic.  A number is the sequence of its decimal digits     *)
(* (characters), the most significant first and none for 0: a binary64 and *)
(* the decimals it is compared with have more digits than a machine        *)
(* integer.                                                                *)
(***************************************************************************)
\* the digits of d * base^n, for the base 2 or 5: multiplied in by 2^27 or
\* 5^11 at a time, numbers that a digit times them does not overflow
MulPow(d, base, n) ==
    LET chunk == IF base = 2 THEN 27 ELSE 11
        One(v) == [s |-> << ChZero + (v % 10) >>, c |-> v \div 10]
        Joined(l, r) == [s |-> l.s \o r.s, c |-> l.c]
        RECURSIVE Mul(_, _, _, _, _)
        RECURSIVE Upper(_, _, _, _, _)
        \* the digits lo .. hi of x * k and the carry out of them, cin the
        \* carry into the digit hi
        Mul(x, k, lo, hi, cin) ==
            IF lo = hi THEN One((x[lo] - ChZero) * k + cin)
            ELSE Upper(x, k, lo, hi, Mul(x, k, (lo + hi) \div 2 + 1, hi, cin))
        \* r the digits after the middle, worked out first: their carry goes
        \* into the digits up to the middle
        Upper(x, k, lo, hi, r) ==
            IF r.c >= 0 THEN Joined(Mul(x, k, lo, (lo + hi) \div 2, r.c), r) ELSE r
        Whole(r) == (IF r.c = 0 THEN <<>> ELSE Digits(r.c)) \o r.s
        RECURSIVE Times(_, _)
        \* x * base^j, the first half of the steps and then the rest
        Times(x, j) ==
            IF x = <<>> THEN <<>>
            ELSE IF j <= chunk THEN Whole(Mul(x, base^j, 1, Len(x), 0))
            ELSE Times(Times(x, chunk * ((j \div chunk + 1) \div 2)),
                       j - chunk * ((j \div chunk + 1) \div 2))
    IN Times(d, n)

(***************************************************************************)
(* float(text): the binary64 nearest to a decimal, ties to the even        *)
(* significand, and repr(float): the shortest decimal that float() takes   *)
(* back to the same binary64, the nearest one when there are several.      *)
(***************************************************************************)
\* the binary64 nearest to d * 10^e, for digits d without leading zeros and
\* not all zero: [t, m, q], t "float" for m * 2^q with m below 2^53 and q in
\* -1074 .. 971 (m at least 2^52 unless q = -1074), "inf" beyond the largest
\* float, "zero" when it rounds to zero.
NearestFloat(d, e) ==
    LET TwoTo52 == << 52, 53, 48, 51, 53, 57, 57, 54, 50, 55, 51, 55, 48, 52, 57, 54 >>
        TwoTo53 == << 57, 48, 48, 55, 49, 57, 57, 50, 53, 52, 55, 52, 48, 57, 57, 50 >>
        Zeros(n) == [i \in 1 .. n |-> ChZero]
        Float(t, m, q) == [t |-> t, m |-> m, q |-> q]
        \* x >= y
        Geq(x, y) ==
            \/ Len(x) > Len(y)
            \/ /\ Len(x) = Len(y)
               /\ \/ x = y
                  \/ \E i \in DOMAIN x : x[i] > y[i] /\ \A k \in 1 .. (i - 1) : x[k] = y[k]
        \* x + 1
        Inc(x) ==
            IF \A i \in DOMAIN x : x[i] = 57 THEN << 49 >> \o Zeros(Len(x))
            ELSE LET At(j) == SubSeq(x, 1, j - 1) \o << x[j] + 1 >> \o Zeros(Len(x) - j)
                 IN At(CHOOSE i \in DOMAIN x :
                          x[i] # 57 /\ \A k \in (i + 1) .. Len(x) : x[k] = 57)
        \* the float m * 2^q: a significand that was rounded up to 2^53 is
        \* 2^52 with the next exponent; beyond the exponent 971 it is inf
        Final(m, q) ==
            IF m = <<>> THEN Float("zero", <<>>, 0)
            ELSE IF m = TwoTo53
                 THEN (IF q + 1 > 971 THEN Float("inf", <<>>, 0)
                       ELSE Float("float", TwoTo52, q + 1))
            ELSE IF q > 971 THEN Float("inf", <<>>, 0)
            ELSE Float("float", m, q)
        \* w * 10^we = i + fraction, n the number of digits of w before the
        \* decimal point: the fraction rounds i up when it is more than a
        \* half, or a half and i is odd
        Round(w, n, i, q) ==
            Final(IF /\ n >= 0 /\ n < Len(w)
                     /\ \/ w[n + 1] > 53
                        \/ /\ w[n + 1] = 53
                           /\ \/ \E j \in (n + 2) .. Len(w) : w[j] # ChZero
                              \/ (i # <<>> /\ i[Len(i)] % 2 = 1)
                  THEN Inc(i) ELSE i, q)
        \* the integer part of a decimal w with n digits before the point
        IntPart(w, n) ==
            IF n <= 0 THEN <<>>
            ELSE IF n <= Len(w) THEN SubSeq(w, 1, n)
            ELSE w \o Zeros(n - Len(w))
        \* w * 10^we is the decimal divided by 2^q: q is raised (w halved,
        \* that is multiplied by 5 and divided by 10) until the integer part
        \* is below 2^53
        RECURSIVE Normal(_, _, _)
        Normal(w, we, q) ==
            IF Geq(IntPart(w, Len(w) + we), TwoTo53)
            THEN Normal(MulPow(w, 5, 1), we - 1, q + 1)
            ELSE Round(w, Len(w) + we, IntPart(w, Len(w) + we), q)
        \* the decimal divided by 2^q: multiplied by 2^-q, or by 5^q and
        \* divided by 10^q
        Scaled(q) ==
            IF q <= 0 THEN Normal(MulPow(d, 2, -q), e, q)
            ELSE Normal(MulPow(d, 5, q), e - q, q)
        \* a power of two that is not above 10^p, and at most 2^2 below it
        Log2(p) ==
            IF p >= 0 THEN (p * 33219) \div 10000
            ELSE -(((-p) * 33220 + 9999) \div 10000)
        \* the first exponent tried: the decimal, at least 10^(p-1), divided by
        \* 2^q is at least 2^52, unless q is the least exponent -1074
        Begin(q) == Scaled(IF q < -1074 THEN -1074 ELSE q)
    IN IF Len(d) + e > OverflowPoint THEN Float("inf", <<>>, 0)
       ELSE IF Len(d) + e < UnderflowPoint THEN Float("zero", <<>>, 0)
       ELSE Begin(Log2(Len(d) + e - 1) - 52)

\* repr of the binary64 m * 2^q (m >= 1): [s, e], the digits s and the
\* exponent e of the last one.  The
\* decimals that float() rounds to this binary64 lie between the half-way
\* points to its neighbours, which belong to them when m is even; the lower
\* neighbour of a power of two is half as far away.  The float x and the two
\* half-way points lo and hi are whole multiples of 2^(q-2), written with the
\* same number n of digits; the result has the fewest digits c for which x
\* cut after c digits, or the next decimal of c digits above it, lies within.
ShortestRepr(m, q) ==
    LET TwoTo52 == << 52, 53, 48, 51, 53, 57, 57, 54, 50, 55, 51, 55, 48, 52, 57, 54 >>
        Zeros(n) == [i \in 1 .. n |-> ChZero]
        Nines(n) == [i \in 1 .. n |-> 57]
        Inclusive == m[Len(m)] % 2 = 0
        \* x - 1, for x >= 1
        Dec(x) ==
            LET At(j) ==
                    (IF j = 1 /\ x[1] = 49 THEN <<>> ELSE SubSeq(x, 1, j - 1) \o << x[j] - 1 >>)
                    \o Nines(Len(x) - j)
            IN At(CHOOSE i \in DOMAIN x :
                     x[i] # ChZero /\ \A k \in (i + 1) .. Len(x) : x[k] = ChZero)
        \* y + 1 for digits y that are not all nines, as many digits
        Next1(y) ==
            LET At(j) == SubSeq(y, 1, j - 1) \o << y[j] + 1 >> \o Zeros(Len(y) - j)
            IN At(CHOOSE i \in DOMAIN y :
                     y[i] # 57 /\ \A k \in (i + 1) .. Len(y) : y[k] = 57)
        \* x + 1
        Inc(x) == IF \A i \in DOMAIN x : x[i] = 57 THEN << 49 >> \o Zeros(Len(x)) ELSE Next1(x)
        \* y times 2^(q-2), in units of 10^E
        Scale(y) == IF q >= 2 THEN MulPow(y, 2, q - 2) ELSE MulPow(y, 5, 2 - q)
        E == IF q >= 2 THEN 0 ELSE q - 2
        \* the digits a and b of equal length compared: -1, 0, 1
        Cmp(a, b) ==
            IF a = b THEN 0
            ELSE IF \E i \in DOMAIN a : a[i] > b[i] /\ \A k \in 1 .. (i - 1) : a[k] = b[k]
                 THEN 1 ELSE -1
        Pick(x, lo, hi, n) ==
            LET RestZero(y, c) == \A j \in (c + 1) .. n : y[j] = ChZero
                Down(c) == SubSeq(x, 1, c)
                Up(c) == Next1(SubSeq(x, 1, c))
                DownIn(c) ==
                    \/ Cmp(Down(c), SubSeq(lo, 1, c)) > 0
                    \/ (Down(c) = SubSeq(lo, 1, c) /\ Inclusive /\ RestZero(lo, c))
                UpIn(c) ==
                    \/ Cmp(Up(c), SubSeq(hi, 1, c)) < 0
                    \/ (Up(c) = SubSeq(hi, 1, c) /\ (Inclusive \/ ~RestZero(hi, c)))
                \* x is nearer to the decimal above than to the one below, or
                \* as near and the one below ends in an odd digit
                Nearer(c) ==
                    /\ c < n
                    /\ \/ x[c + 1] > 53
                       \/ /\ x[c + 1] = 53
                          /\ (~RestZero(x, c + 1) \/ x[c] % 2 = 1)
                Taken(c) ==
                    [s |-> IF UpIn(c) /\ (~DownIn(c) \/ Nearer(c)) THEN Up(c) ELSE Down(c),
                     e |-> E + (n - c)]
            IN Taken(CHOOSE c \in 1 .. n :
                        (DownIn(c) \/ UpIn(c)) /\ \A k \in 1 .. (c - 1) : ~(DownIn(k) \/ UpIn(k)))
        Aligned(x, lo, hi) ==
            Pick(Zeros(Len(hi) + 1 - Len(x)) \o x, Zeros(Len(hi) + 1 - Len(lo)) \o lo,
                 << ChZero >> \o hi, Len(hi) + 1)
        \* 4m - 1 when the lower neighbour is half as far away, 4m - 2 otherwise
        Lower(x) == IF m = TwoTo52 /\ q > -1074 THEN Dec(x) ELSE Dec(Dec(x))
        Bounds(x) == Aligned(Scale(x), Scale(Lower(x)), Scale(Inc(Inc(x))))
    IN Bounds(MulPow(m, 2, 2))

\* float(text) of a number text with the digits digs (integer part and
\* fraction) and the decimal exponent e10 of the last digit, as repr shows
\* it.  A decimal of at most 15 significant digits within the normal floats
\* (1e-307 to 1e308) is the shortest decimal of its own binary64, they are
\* fewer than two decimals of 15 digits apart: repr shows its digits.
FloatOf(sign, digs, e10) ==
    LET \* the digits d, of a decimal whose last digit has the exponent e,
        \* without their leading and trailing zeros, and the exponent of the
        \* last digit left
        Stripped(d, e) ==
            LET Cut(a, z) == [s |-> SubSeq(d, a, z), e |-> e + (Len(d) - z)]
            IN IF \A j \in DOMAIN d : d[j] = ChZero THEN [s |-> <<>>, e |-> 0]
               ELSE Cut(CHOOSE j \in DOMAIN d :
                           d[j] # ChZero /\ \A k \in 1 .. (j - 1) : d[k] = ChZero,
                        CHOOSE j \in DOMAIN d :
                           d[j] # ChZero /\ \A k \in (j + 1) .. Len(d) : d[k] = ChZero)
        Shown(r) == JFloat(sign, r.s, r.e)
        Shortest(r) == Shown(Stripped(r.s, r.e))
        Made(f) ==
            IF f.t = "inf" THEN JInf(sign)
            ELSE IF f.t = "zero" THEN JFloat(sign, <<>>, 0)
            ELSE Shortest(ShortestRepr(f.m, f.q))
        Of(d) ==
            IF d.s = <<>> THEN JFloat(sign, <<>>, 0)
            ELSE IF Len(d.s) <= 15 /\ Len(d.s) + d.e >= -306 /\ Len(d.s) + d.e <= 308
                 THEN Shown(d)
            ELSE Made(NearestFloat(d.s, d.e))
    IN Of(Stripped(digs, e10))

\* the number that starts at i (NUMBER_RE: -?(0|[1-9]\d*)(\.\d+)?([eE][-+]?\d+)?):
\* an int when it has neither fraction nor exponent (int(text) takes at most
\* MaxStrDigits digits), a float otherwise
ParseNumber(b, i) ==
    LET \* an exponent that decides the float whatever the digits before it:
        \* the text has fewer than Len(b) of them, so with this exponent or a
        \* larger one a number that is not zero is beyond OverflowPoint, and
        \* with its negative below UnderflowPoint
        Decisive == Len(b) - UnderflowPoint + OverflowPoint
        \* the exponent digits b[j .. k-1] as a number; from Decisive on the
        \* float no longer depends on it, and the digits left are not read
        RECURSIVE ExpValue(_, _, _)
        ExpValue(j, k, acc) ==
            IF j >= k \/ acc >= Decisive THEN Min(acc, Decisive)
            ELSE ExpValue(j + 1, k, acc * 10 + (b[j] - ChZero))
        \* the first exponent digit in b[j .. k-1] that is not a zero, k when
        \* there is none
        Leading(j, k) ==
            IF \A x \in j .. (k - 1) : b[x] = ChZero THEN k
            ELSE CHOOSE x \in j .. (k - 1) :
                    b[x] # ChZero /\ \A y \in j .. (x - 1) : b[y] = ChZero
        \* the value of the text b[i .. ee-1]: s is its first digit, ie the end
        \* of the integer part, fe the end of the fraction (ie when there is
        \* none), es the first digit of the exponent and ee its end (fe when
        \* there is none); the sign of the exponent is the character before es
        Value(neg, s, ie, fe, es, ee) ==
            IF fe = ie /\ ee = fe /\ ie - s > MaxStrDigits THEN ParseFail("ValueError")
            ELSE IF fe = ie /\ ee = fe
            THEN ParseOk(JValue("int",
                                IF neg /\ SubSeq(b, s, ie - 1) # << ChZero >> THEN -1 ELSE 1,
                                SubSeq(b, s, ie - 1), <<>>, 0), ie)
            ELSE ParseOk(FloatOf(IF neg THEN -1 ELSE 1,
                                 SubSeq(b, s, ie - 1)
                                 \o (IF fe > ie THEN SubSeq(b, ie + 1, fe - 1) ELSE <<>>),
                                 (IF ee = fe THEN 0
                                  ELSE IF b[es - 1] = ChMinus
                                       THEN -ExpValue(Leading(es, ee), ee, 0)
                                  ELSE ExpValue(Leading(es, ee), ee, 0))
                                 - (IF fe > ie THEN fe - ie - 1 ELSE 0)), ee)
        \* ([eE][-+]?\d+)? : the exponent is there when a digit stands at es
        Exponent(neg, s, ie, fe, es) ==
            Value(neg, s, ie, fe, es,
                  IF es <= Len(b) /\ IsDigit(b[es]) THEN DigitsEnd(b, es) ELSE fe)
        \* after the fraction: e or E, a sign, and then es; past the text when
        \* there is no e
        Fraction(neg, s, ie, fe) ==
            Exponent(neg, s, ie, fe,
                     IF fe <= Len(b) /\ b[fe] \in { ChLowerE, ChUpperE }
                     THEN (IF fe + 1 <= Len(b) /\ b[fe + 1] \in { ChPlus, ChMinus }
                           THEN fe + 2 ELSE fe + 1)
                     ELSE Len(b) + 1)
        \* (\.\d+)? : the fraction is there when a point and a digit follow
        Integer(neg, s, ie) ==
            Fraction(neg, s, ie,
                     IF ie + 1 <= Len(b) /\ b[ie] = ChDot /\ IsDigit(b[ie + 1])
                     THEN DigitsEnd(b, ie + 1) ELSE ie)
        \* (0|[1-9]\d*) after the sign
        Signed(neg, s) ==
            IF s > Len(b) \/ ~IsDigit(b[s]) THEN ParseFail("StopIteration")
            ELSE Integer(neg, s, IF b[s] = ChZero THEN s + 1 ELSE DigitsEnd(b, s))
    IN Signed(b[i] = ChMinus, IF b[i] = ChMinus THEN i + 1 ELSE i)

\* dict[k] = v on the items of a dict: a key that is there keeps its place
\* and takes the new value
SetItem(items, k, v) ==
    IF \E j \in DOMAIN items : items[j].k = k
    THEN [j \in DOMAIN items |-> IF items[j].k = k THEN JPair(k, v) ELSE items[j]]
    ELSE Append(items, JPair(k, v))

RECURSIVE ParseValue(_, _, _)
RECURSIVE ParseElems(_, _, _, _)
RECURSIVE ParseMembers(_, _, _, _)

\* one item of an array or of an object with what follows it: [ok, k, v, more,
\* i, err], k the key (of a member), v the value, more whether a comma
\* follows, i the index of the next item after a comma, the index after the
\* closing bracket otherwise
NoItem(err) == [ok |-> FALSE, k |-> <<>>, v |-> JNull, more |-> FALSE, i |-> 0, err |-> err]
\* the item of key k and parse result r, closed by ',' or by close
Item(k, r, b, close, frames) ==
    LET \* d is the index of the first character after the value and white space
        At(d) ==
            IF d > Len(b) \/ b[d] \notin { ChComma, close }
            THEN NoItem(DecodeError(frames).err)
            ELSE [ok |-> TRUE, k |-> k, v |-> r.v, more |-> b[d] = ChComma,
                  i |-> IF b[d] = ChComma THEN SkipWs(b, d + 1) ELSE d + 1, err |-> "none"]
    IN IF ~r.ok THEN NoItem(r.err) ELSE At(SkipWs(b, r.i))

\* the member of an object at i, the opening quote of its key: "key" : value
ParseMember(b, i, frames) ==
    LET \* e is the closing quote of the key, c the index of the colon
        Member(e, c) ==
            IF e = 0 \/ c > Len(b) \/ b[c] # ChColon THEN NoItem(DecodeError(frames).err)
            ELSE Item(StringChars(b, i + 1, e), ParseValue(b, SkipWs(b, c + 1), frames), b,
                      ChRBrace, frames)
        Key(e) == Member(e, SkipWs(b, e + 1))
    IN IF i > Len(b) \/ b[i] # ChQuote THEN NoItem(DecodeError(frames).err)
       ELSE Key(StringEnd(b, i + 1))

\* the element of an array at i, the first character of its value
ParseElem(b, i, frames) == Item(<<>>, ParseValue(b, i, frames), b, ChRBrack, frames)

\* the members of an object after '{' or ',', acc the items so far
ParseMembers(b, i, acc, frames) ==
    LET Add(m) ==
            IF ~m.ok THEN ParseFail(m.err)
            ELSE IF m.more THEN ParseMembers(b, m.i, SetItem(acc, m.k, m.v), frames)
            ELSE ParseOk(JDict(SetItem(acc, m.k, m.v)), m.i)
    IN Add(ParseMember(b, i, frames))

\* the elements of an array after '[' or ',', acc the elements so far
ParseElems(b, i, acc, frames) ==
    LET Add(m) ==
            IF ~m.ok THEN ParseFail(m.err)
            ELSE IF m.more THEN ParseElems(b, m.i, Append(acc, m.v), frames)
            ELSE ParseOk(JList(Append(acc, m.v)), m.i)
    IN Add(ParseElem(b, i, frames))

\* scan_once: the value that starts at i, where frames levels are in use; an
\* object and an array take one more for what they hold.  Where no value
\* starts the scanner raises StopIteration, which raw_decode catches.
ParseValue(b, i, frames) ==
    LET \* a string whose closing quote is e
        String(e) ==
            IF e = 0 THEN DecodeError(frames)
            ELSE ParseOk(JStr(StringChars(b, i + 1, e)), e + 1)
        \* NaN, Infinity, -Infinity: the scanner calls parse_constant for it
        Constant(v, j) ==
            IF MaxNesting(frames) < 1 THEN ParseFail("RecursionError") ELSE ParseOk(v, j)
        \* an object, an array: j is the first character after the bracket
        Object(j) ==
            IF j <= Len(b) /\ b[j] = ChRBrace THEN ParseOk(JDict(<<>>), j + 1)
            ELSE ParseMembers(b, j, <<>>, frames + 1)
        Array(j) ==
            IF j <= Len(b) /\ b[j] = ChRBrack THEN ParseOk(JList(<<>>), j + 1)
            ELSE ParseElems(b, j, <<>>, frames + 1)
    IN IF i > Len(b) THEN ParseFail("StopIteration")
       ELSE IF b[i] = ChQuote THEN String(StringEnd(b, i + 1))
       ELSE IF b[i] \in { ChLBrace, ChLBrack } /\ MaxNesting(frames) < 1
            THEN ParseFail("RecursionError")
       ELSE IF b[i] = ChLBrace THEN Object(SkipWs(b, i + 1))
       ELSE IF b[i] = ChLBrack THEN Array(SkipWs(b, i + 1))
       ELSE IF HasWord(b, i, Word("null")) THEN ParseOk(JNull, i + 4)
       ELSE IF HasWord(b, i, Word("true")) THEN ParseOk(JTrue, i + 4)
       ELSE IF HasWord(b, i, Word("false")) THEN ParseOk(JFalse, i + 5)
       ELSE IF HasWord(b, i, Word("NaN")) THEN Constant(JNaN, i + 3)
       ELSE IF HasWord(b, i, Word("Infinity")) THEN Constant(JInf(1), i + 8)
       ELSE IF HasWord(b, i, << ChMinus >> \o Word("Infinity")) THEN Constant(JInf(-1), i + 9)
       ELSE ParseNumber(b, i)

\* json.loads(text) called where frames levels are in use: [ok, v, err], the
\* value, or the exception raised.  A text that is not one JSON document is
\* a "JSONDecodeError": loads itself raises it for a text that begins with
\* U+FEFF ("Unexpected UTF-8 BOM"), raw_decode, one level before the
\* scanner, for the scanner's StopIteration ("Expecting value"), and decode,
\* two levels before, for a trailing rest ("Extra data").
json_loads(b, frames) ==
    LET Raise(err) == [ok |-> FALSE, v |-> JNull, err |-> err]
        DecodeErrorAt(before) ==
            Raise(IF MaxNesting(frames) + before < ErrorLevels THEN "RecursionError"
                  ELSE "JSONDecodeError")
        Whole(r) ==
            IF ~r.ok THEN (IF r.err = "StopIteration" THEN DecodeErrorAt(1) ELSE Raise(r.err))
            ELSE IF SkipWs(b, r.i) # Len(b) + 1 THEN DecodeErrorAt(2)
            ELSE [ok |-> TRUE, v |-> r.v, err |-> "none"]
    IN IF MaxNesting(frames) < 0 THEN Raise("RecursionError")
       ELSE IF b # <<>> /\ b[1] = ChBom THEN Raise("JSONDecodeError")
       ELSE Whole(ParseValue(b, SkipWs(b, 1), frames))

\* json.loads(data.decode('utf-8')) of the bytes data: [ok, v, err], err the
\* exception raised: "UnicodeDecodeError" by decode (which takes a level to
\* raise it), or the one of loads
loads_bytes(data, frames) ==
    LET Decoded(t) ==
            IF ~t.ok
            THEN [ok |-> FALSE, v |-> JNull,
                  err |-> IF frames + 1 > RecursionLimit THEN "RecursionError"
                          ELSE "UnicodeDecodeError"]
            ELSE json_loads(t.s, frames)
    IN Decoded(utf8_decode(data))

(***************************************************************************)
(* protocol.py: MessageType and create_message.                            *)
(***************************************************************************)
\* the values of the enum MessageType
MessageType == 1 .. 8
SCREEN_DATA == 1
MOUSE_EVENT == 2
KEYBOARD_EVENT == 3
CLIPBOARD_DATA == 4
AUTH_REQUEST == 6
AUTH_RESPONSE == 7
HeaderLen == 8

\* create_message(msg_type, data) called where frames levels are in use:
\* [ok, b, err], the message b, header(kind, length) followed by the JSON
\* text, or the exception that json.dumps raises
create_message(kind, data, frames) ==
    LET Packed(json_data) ==
            [ok |-> TRUE, err |-> "none",
             b |-> PackU32(kind) \o PackU32(Len(json_data)) \o json_data]
        Dumped(r) ==
            IF ~r.ok THEN [ok |-> FALSE, err |-> r.err, b |-> <<>>]
            ELSE Packed(utf8_encode(r.s).b)
    IN Dumped(json_dumps(data, frames + 1))

(***************************************************************************)
(* State.                                                                  *)
(***************************************************************************)
VARIABLES
    scenario,    \* "wire", "send", "server", "client", "capture", "input" or "diff"
    \* --- one stream socket, seen from its reading end ("wire" and "send")
    stream,      \* bytes written on the transport and not yet returned by recv
    peerClosed,  \* the writing end has closed the stream
    peerReset,   \* it was closed abortively and the reset was not yet reported by recv
    sentLog,     \* the frames the peer wrote, in order: [kind, data, wellFormed, frame, written]
    \* --- the caller of read_message and the call in progress
    rpc,         \* "call", "first", "loop", "stopped"
    rtype,       \* msg_type unpacked from the header
    rlen,        \* length unpacked from the header
    rdata,       \* data: the payload bytes collected so far
    results,     \* what the calls returned or raised, in order: [tag, kind, data]
    hdrShort,    \* some recv(8) returned 1..7 bytes
    eofSeen,     \* a recv inside the call in progress returned b'' for a request > 0
    splitSeen,   \* some payload recv returned fewer bytes than it asked for
    \* --- threads inside send_message on one socket ("send")
    senders,     \* thread -> [pc, msg, buf, shorts]
    \* --- one NetworkManager and its threads ("server" and "client")
    running,     \* self.running
    sock,        \* self.sock: "None" or a socket
    callbacks,   \* self.callbacks: kind -> "none" (no entry), "ok" or "raises" (the handler)
    sstate,      \* socket -> "none", "listening", "created", "connected", "closed"
    inbound,     \* connection -> kinds of the messages its peer has sent, not yet read
    thr,         \* thread -> [pc, target, late, failed, exit]
    ncalls,      \* calls of stop and send_message made by the API threads
    dispatched,  \* handler invocations, in order: [conn, kind, raised]
    stopDone,    \* a stop() call that found the connection running has returned
    lateWrite,   \* a send_message call begun after stopDone wrote bytes on a transport
    \* --- one ScreenCapturer and the clock ("capture")
    quality,         \* self.quality
    fps,             \* self.fps
    frame_interval,  \* self.frame_interval, the float 1.0 / den kept as [num, den]
    last_capture,    \* self.last_capture, in clock ticks
    previous_frame,  \* self.previous_frame: None or bytes
    region,          \* self.region: "None" or a region
    now,             \* what time.time() returns, in clock ticks
    captured,        \* the last call of capture(): [n, at, passed, diff, frame_data, ret,
                     \* success_at]
    \* --- the client's two ways of sending a mouse event ("input")
    last_pos,        \* InputSender.last_pos: None or a position
    sent_events,     \* the events handed to network.send_message, in order
    input_log,       \* the events the user made, in order: [path, action, pos, outcome]
    \* --- one compress_diff / decompress_diff round ("diff")
    old_data,        \* the old_data argument: None or bytes
    new_data,        \* the new_data argument
    diff_out,        \* what compress_diff returned: [kind, z, changes], kind "unset" before
    reconstructed    \* the call of decompress_diff: [set, diff, err, bytes], the diff
                     \* it was given, the exception it raised, the bytes it returned

wireVars == << stream, peerClosed, peerReset, sentLog, rpc, rtype, rlen, rdata, results,
               hdrShort, eofSeen, splitSeen >>
readerVars == << rpc, rtype, rlen, rdata, results, hdrShort, eofSeen, splitSeen >>
\* the NetworkManager and its threads
connVars == << running, sock, callbacks, sstate, inbound, thr, ncalls, dispatched,
               stopDone, lateWrite >>
capVars == << quality, fps, frame_interval, last_capture, previous_frame, region, now,
             captured >>
inputVars == << last_pos, sent_events, input_log >>
diffVars == << old_data, new_data, diff_out, reconstructed >>
\* the state of the application classes above the connection
appVars == << capVars, inputVars, diffVars >>
\* what the "wire" scenario leaves alone
notWire == << scenario, senders, connVars, appVars >>
vars == << scenario, wireVars, senders, connVars, appVars >>

(***************************************************************************)
(* Inputs of the "wire" scenario.                                          *)
(***************************************************************************)
\* payloads the peer sends: {}, {'"': [-3, 0.30000000000000004, 'é']}: a
\* key that needs escaping, a negative number, a float that takes 17 digits
\* (0.1 + 0.2), a character outside ASCII; and {'pos': (10, 20)}: the mouse
\* position as pygame.mouse.get_pos() gives it to the client, a tuple
PayloadEmpty == JDict(<<>>)
PayloadPos == JDict(<< JPair(<< 112, 111, 115 >>, JTuple(<< JInt(10), JInt(20) >>)) >>)
PayloadMixed == JDict(<< JPair(<<ChQuote>>,
                               JList(<< JInt(-3),
                                        JFloat(1, <<51, 48, 48, 48, 48, 48, 48, 48,
                                                   48, 48, 48, 48, 48, 48, 48, 48,
                                                   52>>, -17),
                                        JStr(<<233>>) >>)) >>)
Payloads == { PayloadEmpty, PayloadMixed, PayloadPos }
\* kinds the peer sends with create_message
SendKinds == { MOUSE_EVENT, AUTH_RESPONSE }
\* the messages the peer of the "wire" scenario sends with create_message,
\* << kind, data >>: two kinds, each payload
Messages ==
    { << MOUSE_EVENT, PayloadMixed >>, << AUTH_RESPONSE, PayloadPos >>,
      << MOUSE_EVENT, PayloadEmpty >> }
\* header kinds outside the enum (0, 9, and 256: a value whose low byte is 0)
UnknownKinds == { 0, 9, 256 }
\* payload bytes of frames written without create_message: '{}', '{x' (not
\* JSON), '"\xff' + '"' (not UTF-8), '{}' after a byte order mark (EF BB BF
\* is U+FEFF, which json.loads refuses) and '{"a":1,"a":9007199254740993.0}'
\* (a key given twice, and a number between two floats)
RawEmpty == << ChLBrace, ChRBrace >>
RawNotJson == << ChLBrace, 120 >>
RawNotUtf8 == << ChQuote, 255, ChQuote >>
RawBom == << 239, 187, 191, ChLBrace, ChRBrace >>
RawTwice ==
    << 123, 34, 97, 34, 58, 49, 44, 34, 97, 34, 58,
      57, 48, 48, 55, 49, 57, 57, 50, 53, 52, 55, 52, 48, 57, 57, 51, 46, 48, 125 >>
RawTexts == { RawNotJson, RawNotUtf8, RawBom, RawTwice }
\* the frames written without create_message, [kind, text]: '{}' under the
\* kinds outside the enum, every other text under a kind of the enum
RawFrames ==
    { [kind |-> k, text |-> RawEmpty] : k \in UnknownKinds }
    \cup { [kind |-> MOUSE_EVENT, text |-> t] : t \in RawTexts }

Frame(kind, data, wellFormed, frame, written) ==
    [kind |-> kind, data |-> data, wellFormed |-> wellFormed, frame |-> frame,
     written |-> written]
Result(tag, kind, data) == [tag |-> tag, kind |-> kind, data |-> data]

(***************************************************************************)
(* The peer: the writing end of the stream.                                *)
(***************************************************************************)
\* the levels in use where the peer calls create_message and where
\* read_message is called: the top level of a module
TopLevel == 1

\* the peer sends create_message(kind, data); it writes nothing when
\* create_message raises
PeerSend(kind, data) ==
    /\ scenario = "wire" /\ ~peerClosed /\ Len(sentLog) < MaxMsgs
    /\ LET Written(m) ==
               /\ m.ok
               /\ stream' = stream \o m.b
               /\ sentLog' = Append(sentLog, Frame(kind, data, TRUE, m.b, Len(m.b)))
       IN Written(create_message(kind, data, TopLevel))
    /\ UNCHANGED << peerClosed, peerReset, readerVars, notWire >>

\* the peer writes a frame of its own making: any header kind, any payload text
PeerSendRaw(kind, text) ==
    /\ scenario = "wire" /\ ~peerClosed /\ Len(sentLog) < MaxMsgs
    /\ LET f == PackU32(kind) \o PackU32(Len(text)) \o text IN
       /\ stream' = stream \o f
       /\ sentLog' = Append(sentLog, Frame(kind, JNull, FALSE, f, Len(f)))
    /\ UNCHANGED << peerClosed, peerReset, readerVars, notWire >>

\* how a stream ends: "FIN" by an orderly close, "RST" by an abortive one (the
\* peer is killed, or closes with SO_LINGER 0 or with input it has not read)
CloseKinds == { "FIN", "RST" }

\* the peer closes the stream after what it has written
PeerClose(how) ==
    /\ scenario = "wire" /\ ~peerClosed
    /\ peerClosed' = TRUE
    /\ peerReset' = (how = "RST")
    /\ UNCHANGED << stream, sentLog, readerVars, notWire >>

\* where a frame of n bytes may be cut: inside the header, right after the
\* header, before the last payload byte
CutPoints(n) == { 3, HeaderLen, n - 1 }

\* the peer goes away while writing create_message(kind, data): k bytes
\* arrive, and then the end of the stream or a reset
PeerCrash(kind, data, k, how) ==
    /\ scenario = "wire" /\ ~peerClosed /\ Len(sentLog) < MaxMsgs
    /\ LET Written(m) ==
               /\ m.ok
               /\ stream' = stream \o SubSeq(m.b, 1, k)
               /\ sentLog' = Append(sentLog, Frame(kind, data, TRUE, m.b, k))
       IN Written(create_message(kind, data, TopLevel))
    /\ peerClosed' = TRUE
    /\ peerReset' = (how = "RST")
    /\ UNCHANGED << readerVars, notWire >>

(***************************************************************************)
(* protocol.py: read_message(sock), one action per recv call.              *)
(***************************************************************************)
\* sock.recv(n) raises ConnectionResetError: the peer has reset the
\* connection, what had arrived before was read, and the reset was not
\* reported yet (recv(0) does not report it)
RecvRaises(n) == n > 0 /\ stream = <<>> /\ peerReset

\* sock.recv(n) on a blocking stream socket: how many bytes the call may
\* return.  It returns at once with what has arrived (at least one byte, at
\* most n), b'' when the peer has closed and nothing is left, and b'' for
\* n = 0; it returns nothing when it raises; otherwise it blocks (no count).
RecvCounts(n) ==
    IF n = 0 THEN { 0 }
    ELSE IF stream # <<>> THEN 1 .. Min(n, Len(stream))
    ELSE IF RecvRaises(n) THEN { }
    ELSE IF peerClosed THEN { 0 }
    ELSE { }


\* MessageType(value) succeeds for the enum's values and raises ValueError otherwise
IsMessageType(value) == value \in MessageType

\* the recv request of line 28 repeated in the loop: length
Remaining_whole(length, data) == length

\* remaining = length - len(data)
Remaining(length, data) == length - Len(data)

\* line 33: return MessageType(msg_type), json.loads(data.decode('utf-8'))
\* (the enum lookup is evaluated first, then decode, then loads), in a
\* read_message that was called where frames levels are in use; the lookup
\* takes one more level to raise its ValueError
DecodeResult(msg_type, data, frames) ==
    LET Outcome(r) == IF r.ok THEN Result("msg", msg_type, r.v)
                      ELSE Result(r.err, msg_type, JNull)
    IN IF frames + 1 + EnumLevels > RecursionLimit
       THEN Result("RecursionError", msg_type, JNull)
       ELSE IF ~IsMessageType(msg_type)
       THEN (IF frames + 1 + EnumLevels + 1 > RecursionLimit
             THEN Result("RecursionError", msg_type, JNull)
             ELSE Result("UnknownMessageKind", msg_type, JNull))
       ELSE Outcome(loads_bytes(data, frames + 1))

\* lines 23-27: header = sock.recv(8); anything but 8 bytes returns (None, None)
ReadHeader(k) ==
    /\ scenario = "wire" /\ rpc = "call"
    /\ k \in RecvCounts(HeaderLen)
    /\ stream' = SubSeq(stream, k + 1, Len(stream))
    /\ IF k # HeaderLen
       THEN /\ results' = Append(results, Result("None", 0, JNull))
            /\ rpc' = "stopped"
            /\ hdrShort' = (hdrShort \/ k > 0)
            /\ UNCHANGED << rtype, rlen >>
       ELSE /\ rtype' = UnpackU32(SubSeq(stream, 1, k), 0)
            /\ rlen' = UnpackU32(SubSeq(stream, 1, k), 4)
            /\ rpc' = "first"
            /\ UNCHANGED << results, hdrShort >>
    /\ UNCHANGED << peerClosed, peerReset, sentLog, rdata, eofSeen, splitSeen, notWire >>

\* line 28: data = sock.recv(length)
ReadFirst(k) ==
    /\ scenario = "wire" /\ rpc = "first"
    /\ k \in RecvCounts(rlen)
    /\ stream' = SubSeq(stream, k + 1, Len(stream))
    /\ rdata' = SubSeq(stream, 1, k)
    /\ eofSeen' = (k = 0 /\ rlen > 0)
    /\ splitSeen' = (splitSeen \/ (0 < k /\ k < rlen))
    /\ rpc' = "loop"
    /\ UNCHANGED << peerClosed, peerReset, sentLog, rtype, rlen, results, hdrShort, notWire >>

\* lines 29-31: while len(data) < length: data += sock.recv(remaining)
ReadMore(k) ==
    /\ scenario = "wire" /\ rpc = "loop"
    /\ Len(rdata) < rlen
    /\ k \in RecvCounts(Remaining(rlen, rdata))
    /\ stream' = SubSeq(stream, k + 1, Len(stream))
    /\ rdata' = rdata \o SubSeq(stream, 1, k)
    /\ eofSeen' = (eofSeen \/ k = 0)
    /\ splitSeen' = (splitSeen \/ (0 < k /\ k < Remaining(rlen, rdata)))
    /\ UNCHANGED << peerClosed, peerReset, sentLog, rpc, rtype, rlen, results, hdrShort,
                    notWire >>

\* line 33: the loop is over; return the message or raise.  The caller calls
\* read_message again after a message and stops after an exception.
ReadReturn ==
    /\ scenario = "wire" /\ rpc = "loop"
    /\ ~(Len(rdata) < rlen)
    /\ LET Ended(r) ==
               /\ results' = Append(results, r)
               /\ rpc' = IF r.tag = "msg" THEN "call" ELSE "stopped"
       IN Ended(DecodeResult(rtype, rdata, TopLevel))
    /\ rtype' = 0 /\ rlen' = 0 /\ rdata' = <<>> /\ eofSeen' = FALSE
    /\ UNCHANGED << stream, peerClosed, peerReset, sentLog, hdrShort, splitSeen, notWire >>

\* lines 23, 28, 31: sock.recv raises ConnectionResetError and the exception
\* leaves read_message; the socket reports the reset once.  The recv request
\* the call in progress makes next is 8 at line 23, length at line 28,
\* remaining at line 31 (0: no recv is next).
ReadReset ==
    /\ scenario = "wire" /\ rpc \in { "call", "first", "loop" }
    /\ RecvRaises(IF rpc = "call" THEN HeaderLen
                  ELSE IF rpc = "first" THEN rlen
                  ELSE IF rpc = "loop" /\ Len(rdata) < rlen THEN Remaining(rlen, rdata)
                  ELSE 0)
    /\ results' = Append(results, Result("ConnectionResetError", 0, JNull))
    /\ rpc' = "stopped"
    /\ peerReset' = FALSE
    /\ rtype' = 0 /\ rlen' = 0 /\ rdata' = <<>> /\ eofSeen' = FALSE
    /\ UNCHANGED << stream, peerClosed, sentLog, hdrShort, splitSeen, notWire >>

(***************************************************************************)
(* network.py: NetworkManager.send_message, seen at the level of the bytes *)
(* that socket.sendall puts on the transport ("send" scenario).  sendall   *)
(* calls send() until the whole buffer is written; a send() may take only  *)
(* a part, and another thread may run between two send() calls.  There is  *)
(* no lock in send_message.                                                *)
(***************************************************************************)
SendThreads == { "s1", "s2" }


\* lines 87-90: target_sock.sendall(create_message(msg_type, data)) begins;
\* when create_message raises, nothing is written (lines 91-93)
SendAllBegin(t, kind, data) ==
    /\ scenario = "send" /\ senders[t].pc = "idle"
    /\ LET Begun(m) ==
               senders' = [senders EXCEPT ![t] =
                  IF m.ok THEN [pc |-> "writing", msg |-> m.b, buf |-> m.b, shorts |-> 0]
                  ELSE [pc |-> "done", msg |-> <<>>, buf |-> <<>>, shorts |-> 0]]
       IN Begun(create_message(kind, data, TopLevel + 1))
    /\ UNCHANGED << scenario, appVars, wireVars, connVars >>

\* one send() inside sendall: the transport takes the first k bytes of what
\* is left; sendall returns when nothing is left
SendAllWrite(t, k) ==
    /\ scenario = "send" /\ senders[t].pc = "writing"
    /\ k \in 1 .. Len(senders[t].buf)
    /\ k < Len(senders[t].buf) => senders[t].shorts < MaxShortWrites
    /\ stream' = stream \o SubSeq(senders[t].buf, 1, k)
    /\ senders' = [senders EXCEPT ![t] =
          [pc |-> IF k = Len(senders[t].buf) THEN "done" ELSE "writing",
           msg |-> senders[t].msg,
           buf |-> SubSeq(senders[t].buf, k + 1, Len(senders[t].buf)),
           shorts |-> IF k = Len(senders[t].buf) THEN senders[t].shorts
                      ELSE senders[t].shorts + 1]]
    /\ UNCHANGED << scenario, appVars, peerClosed, peerReset, sentLog, readerVars, connVars >>

(***************************************************************************)
(* network.py: one NetworkManager ("server" and "client" scenarios).       *)
(* Threads: "acc" runs start_server (server) or connect (client); "p1" and *)
(* "p2" run handle_client for an accepted peer; "inc" runs handle_incoming;*)
(* "t1" and "t2" are callers of the public methods stop and send_message;  *)
(* "bc" runs RemoteDesktopServer.broadcast_screen (server_main.py).        *)
(***************************************************************************)
ApiThreads == { "t1", "t2" }
Peers == { "p1", "p2" }
ThreadIds == ApiThreads \cup Peers \cup { "acc", "inc", "bc" }
\* sockets: the listening socket, the client's socket, the accepted peers
Sockets == { "L", "C" } \cup Peers
\* A message a peer puts on a connection is written as a number: its header
\* kind, plus 100 when its payload is text that is not JSON ('{x'), plus 200
\* when its payload is a JSON document without the keys the event needs
\* ({}), plus 300 when its action is none the handler knows, plus 400 when
\* its pos is not a pair.
BadPayload(kind) == 100 + kind
BadShape(kind) == 200 + kind
UnknownAction(kind) == 300 + kind
BadPos(kind) == 400 + kind
KindOf(m) == m % 100
\* the messages a peer puts on a connection: a mouse event, one of kind 9,
\* and mouse events whose payload is not JSON, has no keys, has an action
\* that is not known, has a pos of one number
ConnKinds ==
    { MOUSE_EVENT, 9, BadPayload(MOUSE_EVENT), BadShape(MOUSE_EVENT),
      UnknownAction(MOUSE_EVENT), BadPos(MOUSE_EVENT) }

\* what read_message makes of a message of these numbers, [err, v]: the
\* ValueError of MessageType(msg_type) for a kind outside the enum, which is
\* evaluated first, the JSONDecodeError of json.loads for the text '{x' (no
\* payload is returned then), and otherwise the payload: a mouse event
\* {'action': 'move', 'pos': [10, 20], 'button': 'left'} as the client sends
\* it, a keyboard event {'key': 'a', 'action': 'down'}, and the payloads that
\* are not an event
PayloadOf(m) ==
    LET Event(action, pos) ==
            JDict(<< JPair(Word("action"), JStr(Word(action))), JPair(Word("pos"), JList(pos)),
                     JPair(Word("button"), JStr(Word("left"))) >>)
        Returns(v) == [err |-> "none", v |-> v]
    IN IF ~IsMessageType(KindOf(m)) THEN [err |-> "ValueError", v |-> JNull]
       ELSE CASE m \div 100 = 1 -> [err |-> "JSONDecodeError", v |-> JNull]
              [] m \div 100 = 2 -> Returns(JDict(<<>>))
              [] m \div 100 = 3 -> Returns(Event("hover", << JInt(10), JInt(20) >>))
              [] m \div 100 = 4 -> Returns(Event("move", << JInt(10) >>))
              [] OTHER -> IF KindOf(m) = KEYBOARD_EVENT
                          THEN Returns(JDict(<< JPair(Word("key"), JStr(Word("a"))),
                                               JPair(Word("action"), JStr(Word("down"))) >>))
                          ELSE Returns(Event("move", << JInt(10), JInt(20) >>))

\* data[key] of a decoded payload: [err, v], the value under the key, the
\* KeyError of a dict without the key, the TypeError of a value that is no
\* dict and takes no string as its index
Subscript(data, key) ==
    IF data.t # "dict" THEN [err |-> "TypeError", v |-> JNull]
    ELSE IF \A i \in DOMAIN data.items : data.items[i].k # key
    THEN [err |-> "KeyError", v |-> JNull]
    ELSE [err |-> "none",
          v |-> data.items[CHOOSE i \in DOMAIN data.items : data.items[i].k = key].v]

\* input_handler.py lines 14-36: handle_mouse_event(data).  [call, args,
\* err]: the pyautogui function the handler calls and its arguments, "none"
\* when no branch takes the action; err is the exception raised before the
\* call, which line 36 prints.  x, y = data['pos'] takes a sequence of two
\* items: a list, a string of two characters, a dict of two keys.
handle_mouse_event(data) ==
    LET Calls(name, args) == [call |-> name, args |-> args, err |-> "none"]
        Printed(err) == [call |-> "none", args |-> <<>>, err |-> err]
        \* x, y = v
        Unpack(v) ==
            IF v.t \notin { "list", "tuple", "str", "dict" }
            THEN [err |-> "TypeError", xy |-> <<>>]
            ELSE IF (IF v.t = "str" THEN Len(v.s) ELSE Len(v.items)) # 2
            THEN [err |-> "ValueError", xy |-> <<>>]
            ELSE [err |-> "none",
                  xy |-> IF v.t = "str" THEN << JStr(<< v.s[1] >>), JStr(<< v.s[2] >>) >>
                         ELSE IF v.t = "dict"
                         THEN << JStr(v.items[1].k), JStr(v.items[2].k) >>
                         ELSE v.items]
        \* data.get('clicks', 1)
        Clicks(c) == IF c.err = "none" THEN c.v ELSE JInt(1)
        \* lines 18-19, 22-25 and 28-30 once data['pos'] is there
        At(name, p, button) ==
            IF p.err # "none" THEN Printed(p.err)
            ELSE IF name = "moveTo" THEN Calls(name, p.xy)
            ELSE IF button.err # "none" THEN Printed(button.err)
            ELSE IF name = "click"
            THEN Calls(name, p.xy \o << button.v, Clicks(Subscript(data, Word("clicks"))) >>)
            ELSE Calls(name, p.xy \o << button.v >>)
        Positioned(name, pos) ==
            IF pos.err # "none" THEN Printed(pos.err)
            ELSE At(name, Unpack(pos.v), Subscript(data, Word("button")))
        Scroll(amount) ==
            IF amount.err # "none" THEN Printed(amount.err)
            ELSE Calls("scroll", << amount.v >>)
        Branch(action) ==
            IF action.err # "none" THEN Printed(action.err)
            ELSE IF action.v = JStr(Word("move"))
            THEN Positioned("moveTo", Subscript(data, Word("pos")))
            ELSE IF action.v = JStr(Word("click"))
            THEN Positioned("click", Subscript(data, Word("pos")))
            ELSE IF action.v = JStr(Word("drag"))
            THEN Positioned("dragTo", Subscript(data, Word("pos")))
            ELSE IF action.v = JStr(Word("scroll"))
            THEN Scroll(Subscript(data, Word("amount")))
            ELSE Calls("none", <<>>)
    IN Branch(Subscript(data, Word("action")))

\* input_handler.py lines 38-53: handle_keyboard_event(data), as
\* handle_mouse_event
handle_keyboard_event(data) ==
    LET Calls(name, args) == [call |-> name, args |-> args, err |-> "none"]
        Printed(err) == [call |-> "none", args |-> <<>>, err |-> err]
        Branch(key, action) ==
            IF key.err # "none" THEN Printed(key.err)
            ELSE IF action.err # "none" THEN Printed(action.err)
            ELSE IF action.v = JStr(Word("press")) THEN Calls("press", << key.v >>)
            ELSE IF action.v = JStr(Word("down")) THEN Calls("keyDown", << key.v >>)
            ELSE IF action.v = JStr(Word("up")) THEN Calls("keyUp", << key.v >>)
            ELSE IF action.v = JStr(Word("write")) THEN Calls("write", << key.v >>)
            ELSE Calls("none", <<>>)
    IN Branch(Subscript(data, Word("key")), Subscript(data, Word("action")))

\* server_main.py lines 44-50 with input_handler.py lines 14-53: what the
\* handler registered for the kind of message m does with its payload:
\* "injected" when it calls pyautogui, "ignored" when it calls nothing
InjectOutcome(m) ==
    LET Made(r) == IF r.call # "none" THEN "injected" ELSE "ignored"
    IN IF PayloadOf(m).err # "none" THEN "ignored"
       ELSE IF KindOf(m) = MOUSE_EVENT THEN Made(handle_mouse_event(PayloadOf(m).v))
       ELSE IF KindOf(m) = KEYBOARD_EVENT THEN Made(handle_keyboard_event(PayloadOf(m).v))
       ELSE "ignored"

\* lines 1-8 of network.py: the names the module binds; read_message is not
\* one of them, so the call read_message(...) raises NameError
NetworkGlobals ==
    { "socket", "ssl", "threading", "Callable", "create_message", "NetworkManager" }

\* a thread: where it is, the socket its send_message writes on, whether that
\* call began after a stop() had returned, whether its write failed, how its
\* loop ended, and the kind of the message it sends (0: not recorded)
Thread(pc, target, late, failed, exit) ==
    [pc |-> pc, target |-> target, late |-> late, failed |-> failed, exit |-> exit,
     kind |-> 0]

\* where a thread is after its call of stop() or send_message() has returned
\* (broadcast_screen goes on to its sleep, line 80)
Returned(t) == IF t \in ApiThreads THEN "idle" ELSE IF t = "bc" THEN "bc_sleep" ELSE "done"

\* register_callback(msg_type, callback): self.callbacks[msg_type] = callback
RegisterCallback(kind, h) ==
    /\ scenario \in { "server", "client" }
    /\ callbacks[kind] # h
    /\ callbacks' = [callbacks EXCEPT ![kind] = h]
    /\ UNCHANGED << scenario, appVars, wireVars, senders, ncalls, running, sock, sstate, inbound, thr,
                    dispatched, stopDone, lateWrite >>

\* start_server lines 25-28: the listening socket is made, bound and listening
\* (bind and listen succeed)
StartServerListen ==
    /\ scenario = "server" /\ thr["acc"].pc = "new"
    /\ sock' = "L"
    /\ sstate' = [sstate EXCEPT !["L"] = "listening"]
    /\ thr' = [thr EXCEPT !["acc"].pc = "bound"]
    /\ UNCHANGED << scenario, appVars, wireVars, senders, ncalls, running, callbacks, inbound,
                    dispatched, stopDone, lateWrite >>

\* start_server line 29: self.running = True
StartServerRun ==
    /\ scenario = "server" /\ thr["acc"].pc = "bound"
    /\ running' = TRUE
    /\ thr' = [thr EXCEPT !["acc"].pc = "accepting"]
    /\ UNCHANGED << scenario, appVars, wireVars, senders, ncalls, sock, callbacks, sstate, inbound,
                    dispatched, stopDone, lateWrite >>

\* start_server lines 25-27: the socket is made and bind raises OSError (the
\* address is in use or not local); the exception leaves start_server with
\* self.sock bound to a socket that does not listen, and running still False
StartServerBindFails ==
    /\ scenario = "server" /\ thr["acc"].pc = "new"
    /\ sock' = "L"
    /\ sstate' = [sstate EXCEPT !["L"] = "created"]
    /\ thr' = [thr EXCEPT !["acc"].pc = "done", !["acc"].exit = "exception"]
    /\ UNCHANGED << scenario, appVars, wireVars, senders, ncalls, running, callbacks, inbound,
                    dispatched, stopDone, lateWrite >>

\* start_server line 33: while self.running
AcceptTest ==
    /\ scenario = "server" /\ thr["acc"].pc = "accepting"
    /\ thr' = [thr EXCEPT !["acc"].pc = IF running THEN "accept_call" ELSE "done"]
    /\ UNCHANGED << scenario, appVars, wireVars, senders, ncalls, running, sock, callbacks, sstate,
                    inbound, dispatched, stopDone, lateWrite >>

\* start_server line 35: self.sock.accept() is called on the listening socket
\* and blocks until a peer connects
AcceptEnter ==
    /\ scenario = "server" /\ thr["acc"].pc = "accept_call"
    /\ sock = "L" /\ sstate["L"] = "listening"
    /\ thr' = [thr EXCEPT !["acc"].pc = "in_accept"]
    /\ UNCHANGED << scenario, appVars, wireVars, senders, ncalls, running, sock, callbacks, sstate,
                    inbound, dispatched, stopDone, lateWrite >>

\* start_server lines 35-40: a peer connects, the accept() the thread is
\* blocked in returns its socket and a thread is started on
\* handle_client(client).  The call returns a connection whatever happened to
\* self.running, self.sock and the listening socket since it was entered:
\* close() by another thread does not wake it.
Accept(p) ==
    /\ scenario = "server" /\ thr["acc"].pc = "in_accept"
    /\ sstate[p] = "none"
    /\ p = "p2" => sstate["p1"] # "none"
    /\ sstate' = [sstate EXCEPT ![p] = "connected"]
    /\ thr' = [thr EXCEPT ![p].pc = "spawned", !["acc"].pc = "accepting"]
    /\ UNCHANGED << scenario, appVars, wireVars, senders, ncalls, running, sock, callbacks, inbound,
                    dispatched, stopDone, lateWrite >>

\* start_server lines 35-44: the try block raises and the loop ends at break:
\* self.sock is None (AttributeError) or closed (OSError) when accept is
\* called, or the accept() in progress raises (no descriptor left, the
\* connection was aborted) or the TLS handshake of line 37 fails
AcceptLoopEnds ==
    /\ scenario = "server"
    /\ IF thr["acc"].pc = "accept_call"
       THEN sock # "L" \/ sstate["L"] # "listening"
       ELSE thr["acc"].pc = "in_accept"
    /\ thr' = [thr EXCEPT !["acc"].pc = "done"]
    /\ UNCHANGED << scenario, appVars, wireVars, senders, ncalls, running, sock, callbacks, sstate,
                    inbound, dispatched, stopDone, lateWrite >>

\* connect lines 48-50: the socket is made
ConnectCreate ==
    /\ scenario = "client" /\ thr["acc"].pc = "new"
    /\ sock' = "C"
    /\ sstate' = [sstate EXCEPT !["C"] = "created"]
    /\ thr' = [thr EXCEPT !["acc"].pc = "connecting"]
    /\ UNCHANGED << scenario, appVars, wireVars, senders, ncalls, running, callbacks, inbound,
                    dispatched, stopDone, lateWrite >>

\* connect line 51: self.sock.connect returns, the server has accepted;
\* running is still False
ConnectOk ==
    /\ scenario = "client" /\ thr["acc"].pc = "connecting"
    /\ sock = "C" /\ sstate["C"] = "created"
    /\ sstate' = [sstate EXCEPT !["C"] = "connected"]
    /\ thr' = [thr EXCEPT !["acc"].pc = "connected"]
    /\ UNCHANGED << scenario, appVars, wireVars, senders, ncalls, running, sock, callbacks, inbound,
                    dispatched, stopDone, lateWrite >>

\* connect line 52: self.running = True
ConnectRun ==
    /\ scenario = "client" /\ thr["acc"].pc = "connected"
    /\ running' = TRUE
    /\ thr' = [thr EXCEPT !["acc"].pc = "starting"]
    /\ UNCHANGED << scenario, appVars, wireVars, senders, ncalls, sock, callbacks, sstate, inbound,
                    dispatched, stopDone, lateWrite >>

\* connect line 53: a thread is started on handle_incoming; connect returns
ConnectStart ==
    /\ scenario = "client" /\ thr["acc"].pc = "starting"
    /\ thr' = [thr EXCEPT !["acc"].pc = "done", !["inc"].pc = "spawned"]
    /\ UNCHANGED << scenario, appVars, wireVars, senders, ncalls, running, sock, callbacks, sstate,
                    inbound, dispatched, stopDone, lateWrite >>

\* connect line 51: self.sock.connect raises (refused, unreachable); the
\* exception leaves connect
ConnectFails ==
    /\ scenario = "client" /\ thr["acc"].pc = "connecting"
    /\ thr' = [thr EXCEPT !["acc"].pc = "done", !["acc"].exit = "exception"]
    /\ UNCHANGED << scenario, appVars, wireVars, senders, ncalls, running, sock, callbacks, sstate,
                    inbound, dispatched, stopDone, lateWrite >>

\* the remote end of connection c sends one more message of this kind
PeerWrites(c, kind) ==
    /\ scenario \in { "server", "client" }
    /\ sstate[c] = "connected"
    /\ Len(inbound["C"]) + Len(inbound["p1"]) + Len(inbound["p2"]) < MaxInbound
    /\ inbound' = [inbound EXCEPT ![c] = Append(@, kind)]
    /\ UNCHANGED << scenario, appVars, wireVars, senders, ncalls, running, sock, callbacks, sstate, thr,
                    dispatched, stopDone, lateWrite >>

(***************************************************************************)
(* network.py: the receive loops handle_client and handle_incoming.        *)
(***************************************************************************)
\* the thread that runs the receive loop of connection c
LoopThread(c) == IF c = "C" THEN "inc" ELSE c

\* One iteration of "while self.running: msg_type, data = read_message(...)"
\* (lines 58-64 and 73-79): how the iteration ends.
\*   "stopped"    running is false, the loop ends
\*   "NameError"  the name read_message is not bound in network.py
\*   "blocked"    read_message waits for bytes
\*   "ValueError" read_message raises on a kind outside the enum
\*   "JSONDecodeError" read_message raises on a payload that is not JSON text
\*   "skipped"    no callback for the kind, next iteration
\*   "handled"    the callback returned, next iteration
\*   "HandlerError" the callback raised
LoopOutcome(c) ==
    IF ~running THEN "stopped"
    ELSE IF "read_message" \notin NetworkGlobals THEN "NameError"
    ELSE IF inbound[c] = <<>> THEN "blocked"
    ELSE IF PayloadOf(Head(inbound[c])).err # "none" THEN PayloadOf(Head(inbound[c])).err
    ELSE IF callbacks[KindOf(Head(inbound[c]))] = "none" THEN "skipped"
    ELSE IF callbacks[KindOf(Head(inbound[c]))] = "ok" THEN "handled"
    ELSE "HandlerError"

\* one iteration of the receive loop of connection c.  The loop goes round
\* again after a message without a handler and after a handler that returned.
\* When it ends, handle_client goes on to its except and finally clauses
\* (lines 65-68, "closing"), and handle_incoming to its call of self.stop()
\* (line 83).
RecvLoopStep(c) ==
    /\ scenario \in { "server", "client" }
    /\ thr[LoopThread(c)].pc = "spawned"
    /\ LET o == LoopOutcome(c) IN
       /\ o # "blocked"
       /\ inbound' = IF o \in { "stopped", "NameError" } THEN inbound
                     ELSE [inbound EXCEPT ![c] = Tail(@)]
       /\ dispatched' = IF o \in { "handled", "HandlerError" }
                        THEN Append(dispatched, [conn |-> c, kind |-> Head(inbound[c]),
                                                  raised |-> o = "HandlerError"])
                        ELSE dispatched
       /\ IF o \in { "skipped", "handled" }
          THEN UNCHANGED << thr, sstate >>
          ELSE /\ thr' = [thr EXCEPT ![LoopThread(c)].pc =
                                        IF c = "C" THEN "stop_check" ELSE "closing",
                                     ![LoopThread(c)].exit = o]
               /\ UNCHANGED sstate
    /\ UNCHANGED << scenario, appVars, wireVars, senders, ncalls, running, sock, callbacks, stopDone,
                    lateWrite >>

\* line 68, the finally clause of handle_client: client.close(), after the
\* print of line 66 when the loop ended with an exception; other threads run
\* between the end of the loop and this statement
HandleClientClose(p) ==
    /\ scenario \in { "server", "client" }
    /\ p \in Peers /\ thr[p].pc = "closing"
    /\ sstate' = [sstate EXCEPT ![p] = "closed"]
    /\ thr' = [thr EXCEPT ![p].pc = "done"]
    /\ UNCHANGED << scenario, appVars, wireVars, senders, ncalls, running, sock, callbacks,
                    inbound, dispatched, stopDone, lateWrite >>

(***************************************************************************)
(* network.py: stop(), one action per statement (lines 99-108).            *)
(***************************************************************************)
\* a caller calls stop()
StopCall(t) ==
    /\ scenario \in { "server", "client" }
    /\ t \in ApiThreads /\ thr[t].pc = "idle" /\ ncalls < MaxCalls
    /\ ncalls' = ncalls + 1
    /\ thr' = [thr EXCEPT ![t] = Thread("stop_check", "None", FALSE, FALSE, "none")]
    /\ UNCHANGED << scenario, appVars, wireVars, senders, running, sock, callbacks, sstate,
                    inbound, dispatched, stopDone, lateWrite >>

\* line 101: the test; when it fails stop() returns at once
StopCheck(t) ==
    /\ scenario \in { "server", "client" }
    /\ thr[t].pc = "stop_check"
    /\ thr' = [thr EXCEPT ![t].pc = IF running THEN "stop_set" ELSE Returned(t)]
    /\ UNCHANGED << scenario, appVars, wireVars, senders, ncalls, running, sock, callbacks, sstate,
                    inbound, dispatched, stopDone, lateWrite >>

\* line 102: self.running = False
StopSet(t) ==
    /\ scenario \in { "server", "client" }
    /\ thr[t].pc = "stop_set"
    /\ running' = FALSE
    /\ thr' = [thr EXCEPT ![t].pc = "stop_test"]
    /\ UNCHANGED << scenario, appVars, wireVars, senders, ncalls, sock, callbacks, sstate, inbound,
                    dispatched, stopDone, lateWrite >>

\* line 103: if self.sock:
StopTest(t) ==
    /\ scenario \in { "server", "client" }
    /\ thr[t].pc = "stop_test"
    /\ thr' = [thr EXCEPT ![t].pc = IF sock # "None" THEN "stop_close" ELSE "stop_clear"]
    /\ UNCHANGED << scenario, appVars, wireVars, senders, ncalls, running, sock, callbacks, sstate,
                    inbound, dispatched, stopDone, lateWrite >>

\* lines 104-107: self.sock.close() inside try/except; when another thread
\* has set self.sock to None meanwhile, the AttributeError is swallowed
StopClose(t) ==
    /\ scenario \in { "server", "client" }
    /\ thr[t].pc = "stop_close"
    /\ sstate' = IF sock # "None" THEN [sstate EXCEPT ![sock] = "closed"] ELSE sstate
    /\ thr' = [thr EXCEPT ![t].pc = "stop_clear"]
    /\ UNCHANGED << scenario, appVars, wireVars, senders, ncalls, running, sock, callbacks, inbound,
                    dispatched, stopDone, lateWrite >>

\* line 108: self.sock = None; stop() returns
StopClear(t) ==
    /\ scenario \in { "server", "client" }
    /\ thr[t].pc = "stop_clear"
    /\ sock' = "None"
    /\ stopDone' = TRUE
    /\ thr' = [thr EXCEPT ![t].pc = Returned(t)]
    /\ UNCHANGED << scenario, appVars, wireVars, senders, ncalls, running, callbacks, sstate, inbound,
                    dispatched, lateWrite >>

(***************************************************************************)
(* network.py: send_message(msg_type, data, sock=None) (lines 85-93).      *)
(***************************************************************************)
\* line 87: target_sock = sock if sock else self.sock
TargetSock(arg) == IF arg # "None" THEN arg ELSE sock

\* lines 87-88: a caller calls send_message; with no target it returns at once
SendCall(t, arg) ==
    /\ scenario \in { "server", "client" }
    /\ t \in ApiThreads /\ thr[t].pc = "idle" /\ ncalls < MaxCalls
    /\ arg # "None" => sstate[arg] # "none"
    /\ ncalls' = ncalls + 1
    /\ thr' = [thr EXCEPT ![t] =
          IF TargetSock(arg) = "None"
          THEN Thread("idle", "None", stopDone, FALSE, "none")
          ELSE Thread("send_write", TargetSock(arg), stopDone, FALSE, "none")]
    /\ UNCHANGED << scenario, appVars, wireVars, senders, running, sock, callbacks, sstate,
                    inbound, dispatched, stopDone, lateWrite >>

\* line 90: sendall writes the whole message on a connected socket
SendWriteOk(t) ==
    /\ scenario \in { "server", "client" }
    /\ thr[t].pc = "send_write"
    /\ sstate[thr[t].target] = "connected"
    /\ lateWrite' = (lateWrite \/ thr[t].late)
    /\ thr' = [thr EXCEPT ![t].pc = Returned(t)]
    /\ UNCHANGED << scenario, appVars, wireVars, senders, ncalls, running, sock, callbacks, sstate,
                    inbound, dispatched, stopDone >>

\* lines 90-93: sendall raises (the socket is closed, listening or not
\* connected, or the peer has gone) or create_message does (data that
\* json.dumps does not take); the except clause calls self.stop()
SendWriteFails(t) ==
    /\ scenario \in { "server", "client" }
    /\ thr[t].pc = "send_write"
    /\ thr' = [thr EXCEPT ![t].pc = "stop_check", ![t].failed = TRUE]
    /\ UNCHANGED << scenario, appVars, wireVars, senders, ncalls, running, sock, callbacks, sstate,
                    inbound, dispatched, stopDone, lateWrite >>

(***************************************************************************)
(* client_main.py: the input thread started by start() at line 36, after   *)
(* connect() has returned and the authentication request was handed to     *)
(* send_message (lines 29-33).                                             *)
(***************************************************************************)
\* lines 75-92 and 96-117: handle_user_input gets an event from pygame and
\* calls send_mouse_event or send_keyboard_event, which calls
\* self.network.send_message(kind, event_data) with no sock argument.  No
\* line of start(), handle_user_input or send_*_event tests whether an
\* authentication response has been received.
ClientInputEvent(t, kind) ==
    /\ scenario = "client"
    /\ t \in ApiThreads /\ thr[t].pc = "idle" /\ ncalls < MaxCalls
    /\ thr["acc"].pc = "done" /\ thr["acc"].exit = "none"
    /\ ncalls' = ncalls + 1
    /\ thr' = [thr EXCEPT ![t] =
          IF TargetSock("None") = "None"
          THEN [Thread("idle", "None", stopDone, FALSE, "none") EXCEPT !.kind = kind]
          ELSE [Thread("send_write", TargetSock("None"), stopDone, FALSE, "none")
                  EXCEPT !.kind = kind]]
    /\ UNCHANGED << scenario, appVars, wireVars, senders, running, sock, callbacks, sstate,
                    inbound, dispatched, stopDone, lateWrite >>

(***************************************************************************)
(* server/screen_capturer.py: one ScreenCapturer ("capture" scenario).     *)
(* Time is counted in clock ticks, TicksPerSecond to the second.  What     *)
(* ImageGrab.grab and img.save produce is an input of a capture() call:    *)
(* the JPEG bytes, or an exception.  zlib is kept as a constructor.        *)
(***************************************************************************)
\* clock ticks in one second
TicksPerSecond == 4
\* time.time() when the capturer is made, in ticks
StartTime == 8
\* clock ticks the clock advances after StartTime
MaxElapsed == 4
\* calls of capture()
MaxCaptures == 3

\* None, or a bytes object
NoBytes == [some |-> FALSE, bytes |-> <<>>]
SomeBytes(b) == [some |-> TRUE, bytes |-> b]
\* the truth value Python gives it: None and b'' are false
Truthy(v) == v.some /\ v.bytes # <<>>

\* frame_data of a grab: two JPEG outputs of the same length, one longer
Frames == { << 1, 2 >>, << 1, 3 >>, << 1, 2, 9 >> }
\* arguments of the constructor and of the setters
QualityArgs == { 0, 50, 101 }
FpsArgs == { -5, 2, 4, 100 }

\* zlib.compress / zlib.decompress: the library's round trip
zlib_compress(data) == [deflated |-> data]
zlib_decompress(compressed) == compressed.deflated

\* the float 1.0 / f
Interval(f) == [num |-> 1, den |-> f]

\* line 19 with the test always false
TooSoon_never(elapsed, iv) == FALSE

\* line 19 with <= in place of <
TooSoon_le(elapsed, iv) ==
    IF iv.den > 0 THEN elapsed * iv.den <= iv.num * TicksPerSecond
    ELSE elapsed * iv.den >= iv.num * TicksPerSecond

\* line 19: now - self.last_capture < self.frame_interval, elapsed in ticks
TooSoon(elapsed, iv) ==
    IF iv.den > 0 THEN elapsed * iv.den < iv.num * TicksPerSecond
    ELSE elapsed * iv.den > iv.num * TicksPerSecond

\* lines 38-40 never finding the frames equal
SameFrame_never(current_frame, diff_frame) == FALSE

\* lines 38-40: the lengths are equal and no byte differs
SameFrame(current_frame, diff_frame) ==
    /\ Len(current_frame) = Len(diff_frame)
    /\ \A i \in 1 .. Len(current_frame) : current_frame[i] = diff_frame[i]

\* max(lo, min(hi, v)) of set_quality and set_fps
Clamp(lo, hi, v) == IF v > hi THEN hi ELSE IF v < lo THEN lo ELSE v

\* the record kept of a call of capture(): its number, its time, whether it
\* passed line 19, its diff argument, what lines 26-31 gave, what it returned,
\* the time of the last call that returned a frame and of the last call in
\* which lines 26-31 raised (-1: none)
Captured(n, at, passed, diff, frame_data, ret, success_at, failed_at) ==
    [n |-> n, at |-> at, passed |-> passed, diff |-> diff, frame_data |-> frame_data,
     ret |-> ret, success_at |-> success_at, failed_at |-> failed_at]

\* __init__(quality, fps), lines 9-14; fps = 0 raises ZeroDivisionError and
\* leaves no capturer
CapturerInit(q, f) ==
    /\ quality = q /\ fps = f
    /\ last_capture = 0
    /\ frame_interval = Interval(f)
    /\ previous_frame = NoBytes
    /\ region = "None"
    /\ now = StartTime
    /\ captured = Captured(0, -1, FALSE, FALSE, NoBytes, NoBytes, -1, -1)

\* time passes
ClockAdvance ==
    /\ scenario = "capture" /\ now < StartTime + MaxElapsed
    /\ now' = now + 1
    /\ UNCHANGED << scenario, wireVars, senders, connVars, quality, fps, frame_interval,
                    last_capture, previous_frame, region, captured, inputVars, diffVars >>

\* capture(diff), lines 18-52: what a call does to the capturer.  grab is
\* what lines 26-31 give: the JPEG bytes, or NoBytes when ImageGrab.grab or
\* img.save raises
capture(diff, grab) ==
    /\ captured.n < MaxCaptures
    /\ LET passed == ~TooSoon(now - last_capture, frame_interval)
           same == diff /\ Truthy(previous_frame) /\ grab.some
                     /\ SameFrame(grab.bytes, previous_frame.bytes)
           ret == IF passed /\ grab.some /\ ~same
                  THEN SomeBytes(zlib_compress(grab.bytes)) ELSE NoBytes IN
       /\ last_capture' = IF passed THEN now ELSE last_capture
       /\ previous_frame' = IF ret.some THEN SomeBytes(grab.bytes) ELSE previous_frame
       /\ captured' = Captured(captured.n + 1, now, passed, diff,
                               IF passed THEN grab ELSE NoBytes, ret,
                               IF ret.some THEN now ELSE captured.success_at,
                               IF passed /\ ~grab.some THEN now ELSE captured.failed_at)
    /\ UNCHANGED << quality, fps, frame_interval, region >>

\* a caller calls capture(diff)
Capture(diff, grab) ==
    /\ scenario = "capture"
    /\ capture(diff, grab)
    /\ UNCHANGED << scenario, wireVars, senders, connVars, now, inputVars, diffVars >>

\* set_region(region), line 56
SetRegion(r) ==
    /\ scenario = "capture" /\ region # r
    /\ region' = r
    /\ UNCHANGED << scenario, wireVars, senders, connVars, quality, fps, frame_interval,
                    last_capture, previous_frame, now, captured, inputVars, diffVars >>

\* set_quality(quality), line 60
SetQuality(q) ==
    /\ scenario = "capture"
    /\ quality' = Clamp(1, 100, q)
    /\ UNCHANGED << scenario, wireVars, senders, connVars, fps, frame_interval,
                    last_capture, previous_frame, region, now, captured, inputVars,
                    diffVars >>

\* set_fps(fps), lines 64-65
SetFps(f) ==
    /\ scenario = "capture"
    /\ fps' = Clamp(1, 60, f)
    /\ frame_interval' = Interval(Clamp(1, 60, f))
    /\ UNCHANGED << scenario, wireVars, senders, connVars, quality, last_capture,
                    previous_frame, region, now, captured, inputVars, diffVars >>

(***************************************************************************)
(* server_main.py: broadcast_screen (lines 70-80), the thread "bc" of the  *)
(* "server" scenario.  The loop tests the server's own flag, which start() *)
(* sets before the thread is started and only the server's stop() clears   *)
(* (line 40): the loop is followed while the flag is set.                  *)
(***************************************************************************)
\* lines 73-77: frame = self.capturer.capture(), with diff at its default
\* True; a frame (zlib output, never empty) is sent when
\* hasattr(self.network, 'sock') and self.network.sock
BroadcastScreen(grab) ==
    /\ scenario = "server" /\ thr["bc"].pc = "tick"
    /\ capture(TRUE, grab)
    /\ thr' = [thr EXCEPT !["bc"].pc =
                  IF captured'.ret.some /\ sock # "None" THEN "bc_send" ELSE "bc_sleep"]
    /\ UNCHANGED << scenario, wireVars, senders, ncalls, running, sock, callbacks, sstate,
                    inbound, dispatched, stopDone, lateWrite, now, inputVars, diffVars >>

\* line 78: self.network.send_message(MessageType.SCREEN_DATA, {...}) with
\* no sock argument, so that send_message takes self.sock (line 87) and
\* returns at once when it is None by now (line 88)
BroadcastSend ==
    /\ scenario = "server" /\ thr["bc"].pc = "bc_send"
    /\ thr' = [thr EXCEPT !["bc"] =
          IF TargetSock("None") = "None"
          THEN Thread("bc_sleep", "None", stopDone, FALSE, "none")
          ELSE Thread("send_write", TargetSock("None"), stopDone, FALSE, "none")]
    /\ UNCHANGED << scenario, appVars, wireVars, senders, ncalls, running, sock, callbacks,
                    sstate, inbound, dispatched, stopDone, lateWrite >>

\* line 80: time.sleep(1.0 / self.capturer.fps) takes d ticks, at least the
\* time asked for, which is less than a tick
BroadcastSleep(d) ==
    /\ scenario = "server" /\ thr["bc"].pc = "bc_sleep"
    /\ d >= 1 /\ now + d <= StartTime + MaxElapsed
    /\ now' = now + d
    /\ thr' = [thr EXCEPT !["bc"].pc = "tick"]
    /\ UNCHANGED << scenario, wireVars, senders, ncalls, running, sock, callbacks, sstate,
                    inbound, dispatched, stopDone, lateWrite, quality, fps, frame_interval,
                    last_capture, previous_frame, region, captured, inputVars, diffVars >>

(***************************************************************************)
(* server/compression.py: compress_diff and decompress_diff ("diff").      *)
(***************************************************************************)
\* longest old_data and new_data
MaxDataLen == 3
\* the byte strings of at most n bytes, of the byte values 1 and 2
BytesUpTo(n) == UNION { [1 .. k -> { 1, 2 }] : k \in 0 .. n }

\* what compress_diff returns: zlib bytes, or a list of changes
DiffUnset == [kind |-> "unset", z |-> zlib_compress(<<>>), changes |-> <<>>]
DiffZlib(z) == [kind |-> "zlib", z |-> z, changes |-> <<>>]
DiffList(changes) == [kind |-> "list", z |-> zlib_compress(<<>>), changes |-> changes]
\* the tuples (i, new_data[i]) and ('tail', new_data[len(old_data):])
ByteChange(pos, val) == [tag |-> "pos", pos |-> pos, val |-> val, tail |-> <<>>]
TailChange(tail) == [tag |-> "tail", pos |-> 0, val |-> 0, tail |-> tail]

\* line 31 appending all of new_data
TailOf_whole(old, new) == new

\* line 31: new_data[len(old_data):]
TailOf(old, new) == SubSeq(new, Len(old) + 1, Len(new))

\* lines 25-27 recording no change
ByteChanges_none(old, new, i) == << >>

\* lines 25-27: the changes (i, new_data[i]) for i in range(min_len), from
\* position i on (positions count from 0)
RECURSIVE ByteChanges(_, _, _)
ByteChanges(old, new, i) ==
    IF i >= Min(Len(old), Len(new)) THEN <<>>
    ELSE (IF old[i + 1] # new[i + 1] THEN << ByteChange(i, new[i + 1]) >> ELSE <<>>)
         \o ByteChanges(old, new, i + 1)

\* compress_diff(old_data, new_data), lines 15-33
compress_diff(old, new) ==
    IF ~old.some THEN DiffZlib(zlib_compress(new))
    ELSE DiffList(ByteChanges(old.bytes, new, 0)
                  \o (IF Len(new) > Len(old.bytes)
                      THEN << TailChange(TailOf(old.bytes, new)) >> ELSE <<>>))

\* lines 43-51: the changes from the i-th on applied to the bytearray
\* reconstructed: [err, bytes], the bytes after the last change, or the
\* exception that a change raises.  A bytearray takes the values of
\* range(0, 256) only (ValueError), reconstructed[pos] with a negative pos
\* is the byte at len + pos, and there is none before the first (IndexError).
RECURSIVE ApplyChanges(_, _, _)
ApplyChanges(rec, changes, i) ==
    LET Applied(b) == [err |-> "none", bytes |-> b]
        Failed(err) == [err |-> err, bytes |-> <<>>]
        \* lines 45-49
        ByteChanged(pos, val) ==
            IF val < 0 \/ val > 255 THEN Failed("ValueError")
            ELSE IF pos >= Len(rec) THEN Applied(Append(rec, val))
            ELSE IF pos >= 0 THEN Applied([rec EXCEPT ![pos + 1] = val])
            ELSE IF pos >= -Len(rec) THEN Applied([rec EXCEPT ![Len(rec) + pos + 1] = val])
            ELSE Failed("IndexError")
        One(change) ==
            IF change.tag = "pos" THEN ByteChanged(change.pos, change.val)
            ELSE Applied(rec \o change.tail)
        Rest(r) == IF r.err # "none" THEN r ELSE ApplyChanges(r.bytes, changes, i + 1)
    IN IF i > Len(changes) THEN Applied(rec) ELSE Rest(One(changes[i]))

\* decompress_diff(old_data, diff), lines 35-53: [err, bytes], the bytes
\* returned, or the exception raised
decompress_diff(old, diff) ==
    IF diff.kind # "list" THEN [err |-> "none", bytes |-> zlib_decompress(diff.z)]
    ELSE ApplyChanges(IF Truthy(old) THEN old.bytes ELSE <<>>, diff.changes, 1)

\* lists of changes that compress_diff does not return: a position counted
\* from the end, one before the first byte, one past the last byte, a value
\* that is no byte
GivenDiffs ==
    { DiffList(<< ByteChange(-1, 2) >>), DiffList(<< ByteChange(-1 - MaxDataLen, 1) >>),
      DiffList(<< ByteChange(MaxDataLen + 1, 1), TailChange(<< 2 >>) >>),
      DiffList(<< ByteChange(0, 256) >>) }

\* diff = compress_diff(old_data, new_data)
CompressDiff ==
    /\ scenario = "diff" /\ diff_out.kind = "unset"
    /\ diff_out' = compress_diff(old_data, new_data)
    /\ UNCHANGED << scenario, wireVars, senders, connVars, capVars, inputVars,
                    old_data, new_data, reconstructed >>

\* decompress_diff(old_data, diff), of the diff that compress_diff returned
\* or of another
DecompressDiff(diff) ==
    LET Call(r) == [set |-> TRUE, diff |-> diff, err |-> r.err, bytes |-> r.bytes]
    IN /\ scenario = "diff" /\ diff_out.kind # "unset" /\ ~reconstructed.set
       /\ reconstructed' = Call(decompress_diff(old_data, diff))
    /\ UNCHANGED << scenario, wireVars, senders, connVars, capVars, inputVars,
                    old_data, new_data, diff_out >>

(***************************************************************************)
(* client/client_main.py and client/input_sender.py: the two functions     *)
(* that send a mouse event ("input" scenario).  The client controller      *)
(* RemoteDesktopClient.handle_user_input calls its own send_mouse_event;   *)
(* InputSender is a class of its own that the controller does not use.     *)
(***************************************************************************)
\* mouse events the user makes
MaxEvents == 3
\* None, or a position (x, y)
NoPos == [some |-> FALSE, xy |-> << 0, 0 >>]
Pos(x, y) == [some |-> TRUE, xy |-> << x, y >>]
Positions == { Pos(10, 20), Pos(10, 21) }
\* the arguments of InputSender.send_mouse_event
MouseActions == { "move", "click" }

\* event_data of client_main.py lines 98-108 and of input_sender.py lines
\* 18-25; "None" for a key that is not there
EventData(action, pos, button, sub_action, amount) ==
    [action |-> action, pos |-> pos, button |-> button, sub_action |-> sub_action,
     amount |-> amount]
InputEntry(path, action, pos, outcome) ==
    [path |-> path, action |-> action, pos |-> pos, outcome |-> outcome]

\* the names input_sender.py binds (lines 1-6): MessageType is not one of
\* them, so line 27 raises NameError
InputSenderGlobals == { "pyautogui", "win32api", "win32con", "time", "InputSender" }

\* client_main.py lines 96-110: send_mouse_event(action, pos, button,
\* sub_action) makes event_data, with sub_action when it is given and the
\* button as the amount of a scroll, and hands it to network.send_message
send_mouse_event(action, pos, button, sub_action) ==
    /\ sent_events' = Append(sent_events,
                             EventData(action, pos, button, sub_action,
                                       IF action = "scroll" THEN button ELSE "None"))
    /\ input_log' = Append(input_log, InputEntry("client", action, pos, "sent"))

\* client_main.py lines 79-86: handle_user_input gets a mouse event from
\* pygame, the mouse being at pos, and calls self.send_mouse_event: a move
\* for a motion, a click with the button's name and 'down' or 'up' for a
\* button
ClientMouseEvent(type, pos, b) ==
    /\ scenario = "input" /\ Len(input_log) < MaxEvents
    /\ IF type = "MOUSEMOTION" THEN send_mouse_event("move", pos, "left", "None")
       ELSE send_mouse_event("click", pos,
                             IF b = 1 THEN "left" ELSE IF b = 3 THEN "right" ELSE "middle",
                             IF type = "MOUSEBUTTONDOWN" THEN "down" ELSE "up")
    /\ UNCHANGED << scenario, wireVars, senders, connVars, capVars, diffVars, last_pos >>

\* input_sender.py line 13: action == 'move' and pos == self.last_pos
Repeated(action, pos) == action = "move" /\ pos = last_pos

\* input_sender.py lines 11-27: InputSender.send_mouse_event(action, pos,
\* button, sub_action)
InputSenderMouseEvent(action, pos, button, sub_action) ==
    /\ scenario = "input" /\ Len(input_log) < MaxEvents
    /\ IF Repeated(action, pos)
       THEN /\ input_log' = Append(input_log, InputEntry("sender", action, pos, "suppressed"))
            /\ UNCHANGED << last_pos, sent_events >>
       ELSE /\ last_pos' = IF pos.some THEN pos ELSE last_pos
            /\ IF "MessageType" \in InputSenderGlobals
               THEN /\ sent_events' = Append(sent_events,
                                             EventData(action,
                                                       IF pos.some THEN pos ELSE last_pos,
                                                       button, sub_action, "None"))
                    /\ input_log' = Append(input_log,
                                           InputEntry("sender", action, pos, "sent"))
               ELSE /\ input_log' = Append(input_log,
                                           InputEntry("sender", action, pos, "NameError"))
                    /\ UNCHANGED sent_events
    /\ UNCHANGED << scenario, wireVars, senders, connVars, capVars, diffVars >>

(***************************************************************************)
(* Properties of the wire protocol.                                        *)
(***************************************************************************)
\* the frames sentLog[i..] as they were written, one after the other
RECURSIVE FramesFrom(_)
FramesFrom(i) ==
    IF i > Len(sentLog) THEN <<>>
    ELSE SubSeq(sentLog[i].frame, 1, sentLog[i].written) \o FramesFrom(i + 1)

\* every frame written so far was made by create_message and written whole,
\* and every header read so far got its 8 bytes in one recv
ValidStream ==
    /\ \A i \in DOMAIN sentLog :
          sentLog[i].wellFormed /\ sentLog[i].written = Len(sentLog[i].frame)
    /\ ~hdrShort

\* the payload as a reader of its JSON text gets it: JSON has one array, so
\* every tuple is a list of the same items
RECURSIVE AsLists(_)
AsLists(v) ==
    IF v.t \in { "list", "tuple" }
    THEN JList([i \in DOMAIN v.items |-> AsLists(v.items[i])])
    ELSE IF v.t = "dict"
    THEN JDict([i \in DOMAIN v.items |-> JPair(v.items[i].k, AsLists(v.items[i].v))])
    ELSE v

\* between two calls the stream holds exactly the frames not yet decoded, so
\* each call consumed 8 + payload_length bytes and the next one starts at
\* the next header
NextAtHeader ==
    /\ rpc = "call" => stream = FramesFrom(Len(results) + 1)
    /\ rpc \in { "first", "loop" } =>
          /\ rtype = sentLog[Len(results) + 1].kind
          /\ rlen = Len(sentLog[Len(results) + 1].frame) - HeaderLen
          /\ Len(rdata) <= rlen
          /\ rdata \o stream
               = SubSeq(FramesFrom(Len(results) + 1), HeaderLen + 1,
                        Len(FramesFrom(Len(results) + 1)))

\* C2 (as claimed): on a stream of whole create_message frames whose headers
\* arrive in one piece, the calls of read_message return exactly the (kind,
\* payload) pairs that were sent, in order, however the payload bytes are
\* split over the recv calls, each call consuming 8 + payload_length bytes.
C2_RoundTripExact ==
    (scenario = "wire" /\ ValidStream) =>
        /\ Len(results) <= Len(sentLog) + 1
        /\ \A i \in DOMAIN results :
              IF i <= Len(sentLog)
              THEN results[i] = Result("msg", sentLog[i].kind, sentLog[i].data)
              ELSE results[i].tag \in { "None", "ConnectionResetError" } /\ peerClosed
        /\ NextAtHeader

\* C2 (amended): as claimed, the pairs returned being the pairs sent with
\* every tuple of the payload read back as a list of the same items.
C2_RoundTripInOrder ==
    (scenario = "wire" /\ ValidStream) =>
        /\ Len(results) <= Len(sentLog) + 1
        /\ \A i \in DOMAIN results :
              IF i <= Len(sentLog)
              THEN results[i] = Result("msg", sentLog[i].kind, AsLists(sentLog[i].data))
              ELSE results[i].tag \in { "None", "ConnectionResetError" } /\ peerClosed
        /\ NextAtHeader

\* C2 witness: two messages were decoded in order, the mixed payload and
\* then the mouse position, whose tuple came back as a list, after some
\* payload recv returned only part of what was asked
C2_Witness ==
    /\ scenario = "wire" /\ ValidStream /\ splitSeen
    /\ Len(results) = 2 /\ Len(sentLog) = 2
    /\ results[1].tag = "msg" /\ results[2].tag = "msg"
    /\ sentLog[1].data = PayloadMixed /\ results[1].data = PayloadMixed
    /\ sentLog[2].data = PayloadPos /\ results[2].data # PayloadPos
    /\ results[2].data = JDict(<< JPair(<< 112, 111, 115 >>, JList(<< JInt(10), JInt(20) >>)) >>)
    /\ results[1].kind # results[2].kind

\* C3 (as claimed): once a recv inside read_message has returned b'' because
\* the stream was closed before the payload was complete, the call has ended
\* (with a TruncatedMessage error); it is not still collecting the payload.
C3_TruncatedTerminates ==
    scenario = "wire" => ~(rpc = "loop" /\ eofSeen /\ Len(rdata) < rlen)

\* C5 (as claimed): read_message returns (None, None), the end of stream,
\* only when the peer has closed the transport
C5_EndOfStreamOnlyWhenClosed ==
    scenario = "wire" =>
        \A i \in DOMAIN results : results[i].tag = "None" => peerClosed

\* read_message alone, the decode step that C4 speaks of (C4 itself, which is
\* about the receive loop too, is not stated): a header whose kind is outside
\* 1..8 makes read_message raise the enum's ValueError (the
\* UnknownMessageKind outcome) once the payload is read, with nothing
\* returned, and the caller that stops on an exception reads no more
UnknownKindRaises ==
    scenario = "wire" =>
        \A i \in DOMAIN results :
           (i <= Len(sentLog) /\ results[i].tag \notin { "None", "ConnectionResetError" }
              /\ sentLog[i].kind \notin MessageType)
           => /\ results[i] = Result("UnknownMessageKind", sentLog[i].kind, JNull)
              /\ i = Len(results) /\ rpc = "stopped"

\* the payload bytes of the i-th frame the peer wrote
PayloadText(i) == SubSeq(sentLog[i].frame, HeaderLen + 1, Len(sentLog[i].frame))

\* the payload texts of RawTexts that are not a document, each with the
\* exception of line 33 it stands for: data.decode raises
\* UnicodeDecodeError, json.loads raises JSONDecodeError
Malformed ==
    { << RawNotUtf8, "UnicodeDecodeError" >>, << RawNotJson, "JSONDecodeError" >>,
      << RawBom, "JSONDecodeError" >> }

\* read_message alone, the decode step that C22 speaks of (C22 itself, which
\* is about the receive loop, is not stated): a frame of a known kind, read
\* whole, whose payload is one of the malformed texts makes read_message
\* raise that text's exception (the SerializationError outcome) with nothing
\* returned, and it is the last thing the caller reads from that stream
MalformedPayloadRaises ==
    scenario = "wire" =>
        \A i \in DOMAIN results : \A m \in Malformed :
           ( /\ i <= Len(sentLog) /\ results[i].tag \notin { "None", "ConnectionResetError" }
             /\ sentLog[i].kind \in MessageType
             /\ PayloadText(i) = m[1] )
           => /\ results[i] = Result(m[2], sentLog[i].kind, JNull)
              /\ i = Len(results) /\ rpc = "stopped"

(***************************************************************************)
(* Properties of send_message, stop and the receive loops.                 *)
(***************************************************************************)
\* C1 (as claimed): what two concurrent send_message calls have put on the
\* transport is the beginning of one whole message followed by the other
C1_NoInterleaving ==
    scenario = "send" =>
        \E a \in SendThreads : \E b \in SendThreads \ { a } :
           LET whole == senders[a].msg \o senders[b].msg IN
           Len(stream) <= Len(whole) /\ stream = SubSeq(whole, 1, Len(stream))

\* C6 (as claimed): when a message whose registered handler raises has
\* arrived on a connection (it waits at the head of the stream, or its handler
\* was invoked and raised), and nobody has called stop from outside, the
\* receive loop of that connection is still running and the connection open
C6_HandlerErrorContained ==
    scenario \in { "server", "client" } =>
        \A c \in Peers \cup { "C" } :
           ( \/ /\ inbound[c] # <<>>
                /\ Head(inbound[c]) \in MessageType
                /\ callbacks[Head(inbound[c])] = "raises"
             \/ \E i \in DOMAIN dispatched :
                   dispatched[i].conn = c /\ dispatched[i].raised )
           => (thr[LoopThread(c)].pc = "spawned" /\ sstate[c] = "connected")

\* C7 (as claimed): no send_message call begun after a stop() has returned
\* writes bytes on any transport
C7_NoWriteAfterStop ==
    scenario \in { "server", "client" } => ~lateWrite

\* C8 (as claimed): whenever a call of stop() returns, running is false and
\* the socket handle is released (self.sock is None)
C8_StopReleases ==
    [][ \A t \in ThreadIds :
           (thr[t].pc \in { "stop_check", "stop_clear" } /\ thr'[t].pc = Returned(t))
           => (running' = FALSE /\ sock' = "None") ]_vars

\* C10 (as claimed): when send_message returns after its write has failed,
\* running is false and the transport it wrote on is closed
C10_WriteFailureStops ==
    [][ \A t \in ApiThreads :
           (thr[t].failed /\ thr[t].pc \in { "stop_check", "stop_clear" }
              /\ thr'[t].pc = Returned(t))
           => (running' = FALSE /\ sstate'[thr[t].target] = "closed") ]_vars

\* C11 (as claimed): a message whose kind has a registered handler and that
\* waits on a connection is delivered: the receive loop of that connection is
\* running, unless it has ended for one of the reasons the loop has for
\* ending (stop, a kind outside the enumeration, a handler that raised); and
\* the handlers invoked on a connection are invoked for the messages sent on
\* it (every dispatch is on a connection that was opened)
C11_HandlersInvoked ==
    scenario \in { "server", "client" } =>
        /\ \A c \in Peers \cup { "C" } :
              ( /\ inbound[c] # <<>>
                /\ Head(inbound[c]) \in MessageType
                /\ callbacks[Head(inbound[c])] = "ok"
                /\ thr[LoopThread(c)].exit
                      \notin { "stopped", "ValueError", "JSONDecodeError", "HandlerError" } )
              => thr[LoopThread(c)].pc = "spawned"
        /\ \A i \in DOMAIN dispatched : sstate[dispatched[i].conn] # "none"

\* C23 (as claimed): on the server, when a mouse event without its keys has
\* arrived on a peer's connection (it waits on the stream, or the handler was
\* invoked for it and ignored it) while the server's handler for mouse events
\* is registered, the receive loop of that peer is still running and its
\* connection open; and an event handed to the handler is injected exactly
\* when it is well formed
C23_BadEventIgnored ==
    scenario = "server" =>
        /\ \A p \in Peers :
              ( /\ callbacks[MOUSE_EVENT] = "ok"
                /\ \/ \E j \in DOMAIN inbound[p] : inbound[p][j] = BadShape(MOUSE_EVENT)
                   \/ \E i \in DOMAIN dispatched :
                         /\ dispatched[i].conn = p
                         /\ dispatched[i].kind = BadShape(MOUSE_EVENT) )
              => (thr[p].pc = "spawned" /\ sstate[p] = "connected")
        /\ \A i \in DOMAIN dispatched :
              InjectOutcome(dispatched[i].kind) = "injected" <=> dispatched[i].kind \in MessageType

\* C25 (as claimed): whatever the interleaving of the threads inside stop()
\* (callers of stop, the receive loop's finally clause, send_message after a
\* failed write), when the last of them returns from stop(), running is
\* false and self.sock is None
C25_ConcurrentStopSafe ==
    [][ \A t \in ThreadIds :
           ( /\ thr[t].pc \in { "stop_check", "stop_clear" } /\ thr'[t].pc = Returned(t)
             /\ \A u \in ThreadIds \ { t } :
                   thr[u].pc \notin { "stop_check", "stop_set", "stop_test",
                                      "stop_close", "stop_clear" } )
           => (running' = FALSE /\ sock' = "None") ]_vars

\* C26 (as claimed): the server hands a mouse or keyboard event of a
\* connection to its handler only after the handler of an authentication
\* request of that connection has run (it is what sends the successful
\* response); and the client writes no mouse or keyboard event on its
\* connection unless a successful authentication response has been handed to
\* its handler
C26_InputGatedByAuth ==
    [][ /\ \A t \in ApiThreads :
             ( /\ scenario = "client"
               /\ thr[t].kind \in { MOUSE_EVENT, KEYBOARD_EVENT }
               /\ thr[t].pc = "send_write" /\ thr'[t].pc = "idle" )
             => \E i \in DOMAIN dispatched :
                   dispatched[i].conn = "C" /\ dispatched[i].kind = AUTH_RESPONSE
        /\ scenario = "server" =>
             \A i \in DOMAIN dispatched' :
                dispatched'[i].kind \in { MOUSE_EVENT, KEYBOARD_EVENT }
                => \E j \in 1 .. (i - 1) :
                      /\ dispatched'[j].conn = dispatched'[i].conn
                      /\ dispatched'[j].kind = AUTH_REQUEST ]_vars

\* C12 (as claimed): while running is true, no step changes the table of
\* callbacks
C12_TableFixedOnceStarted ==
    [][ (scenario \in { "server", "client" } /\ running) => callbacks' = callbacks ]_vars

\* C13 (as claimed): on the server, when the broadcast thread writes the
\* screen-data message of a frame while a peer is connected, it writes on the
\* socket of a connected peer; and the broadcast thread never runs the body of
\* stop()
C13_FrameReachesPeer ==
    scenario = "server" =>
        /\ ( thr["bc"].pc = "send_write" /\ \E p \in Peers : sstate[p] = "connected" )
              => ( thr["bc"].target \in Peers /\ sstate[thr["bc"].target] = "connected" )
        /\ thr["bc"].pc \notin { "stop_set", "stop_test", "stop_close", "stop_clear" }

\* C20 (as claimed): on the server, no step of a caller whose write to a peer
\* has failed changes running, self.sock or the listening socket; and the
\* steps that end the receive loop of a peer (the end of the loop and the
\* close of its socket) change neither these nor the socket of another peer
C20_PeerFailureIsLocal ==
    [][ scenario = "server" =>
          /\ \A t \in ApiThreads :
                (thr[t].failed /\ thr[t].target \in Peers /\ thr'[t] # thr[t])
                => (running' = running /\ sock' = sock /\ sstate'["L"] = sstate["L"])
          /\ \A p \in Peers :
                (thr[p].pc \in { "spawned", "closing" } /\ thr'[p].pc \in { "closing", "done" }
                   /\ thr'[p].pc # thr[p].pc)
                => /\ running' = running /\ sock' = sock
                   /\ \A x \in Sockets \ { p } : sstate'[x] = sstate[x] ]_vars

(***************************************************************************)
(* Properties of the screen capturer.                                      *)
(***************************************************************************)
\* C16 (as claimed): a call of capture() returns a frame only if at least
\* 1/fps has passed since the last call that returned one; and a call made
\* less than 1/fps after the call before it returns no frame and changes
\* neither previous_frame nor last_capture.
C16_RateLimitAsClaimed ==
    [][ captured'.n = captured.n + 1 =>
          /\ (captured'.ret.some /\ captured.success_at # -1 /\ fps > 0)
                => (now - captured.success_at) * fps >= TicksPerSecond
          /\ (captured.n > 0 /\ fps > 0 /\ (now - captured.at) * fps < TicksPerSecond)
                => /\ ~captured'.ret.some
                   /\ previous_frame' = previous_frame
                   /\ last_capture' = last_capture ]_vars

\* C16 (amended): a call of capture() returns a frame only if at least 1/fps
\* has passed since the last call that returned one; and a call made less
\* than 1/fps after a call that passed the time test of line 19 returns no
\* frame and changes neither previous_frame nor last_capture.
C16_RateLimit ==
    [][ captured'.n = captured.n + 1 =>
          /\ (captured'.ret.some /\ captured.success_at # -1 /\ fps > 0)
                => (now - captured.success_at) * fps >= TicksPerSecond
          /\ (captured.n > 0 /\ captured.passed /\ fps > 0
                /\ (now - captured.at) * fps < TicksPerSecond)
                => /\ ~captured'.ret.some
                   /\ previous_frame' = previous_frame
                   /\ last_capture' = last_capture ]_vars

\* C16 witness: a call returned a frame, time passed, and the next call, less
\* than 1/fps later, returned no frame
C16_Witness ==
    /\ scenario = "capture" /\ captured.n >= 2 /\ fps > 0
    /\ ~captured.passed /\ ~captured.ret.some
    /\ captured.success_at = last_capture /\ previous_frame.some
    /\ captured.at > last_capture
    /\ (captured.at - last_capture) * fps < TicksPerSecond

\* C17: a call of capture(diff=True) whose JPEG output equals the stored
\* previous frame returns no frame and leaves previous_frame as it is; and
\* previous_frame changes only in a call of capture() that returns a frame.
C17_ChangeDetection ==
    [][ /\ ( /\ captured'.n = captured.n + 1
             /\ captured'.diff /\ captured'.frame_data.some /\ previous_frame.some
             /\ captured'.frame_data.bytes = previous_frame.bytes )
           => (~captured'.ret.some /\ previous_frame' = previous_frame)
        /\ previous_frame' # previous_frame
           => (captured'.n = captured.n + 1 /\ captured'.ret.some) ]_vars

\* C17 witness: a second call passed the time test with change detection on,
\* its output was the stored previous frame, and it returned no frame
C17_Witness ==
    /\ scenario = "capture" /\ captured.n >= 2
    /\ captured.passed /\ captured.diff /\ captured.frame_data.some
    /\ previous_frame.some /\ captured.frame_data.bytes = previous_frame.bytes
    /\ ~captured.ret.some /\ captured.success_at < captured.at

\* C19 (as claimed): quality is in 1..100, fps in 1..60 and frame_interval is
\* 1/fps in every state of a capturer, and a change of quality or of fps
\* leaves the other fields alone (frame_interval follows fps)
C19_ClampedSettings ==
    /\ [](scenario = "capture" =>
             /\ quality \in 1 .. 100
             /\ fps \in 1 .. 60
             /\ frame_interval = Interval(fps))
    /\ [][ /\ quality' # quality
              => UNCHANGED << fps, frame_interval, region, last_capture, previous_frame >>
           /\ fps' # fps
              => UNCHANGED << quality, region, last_capture, previous_frame >> ]_vars

\* C21 (as claimed): a call of capture() in which the grab or the encoding
\* raises returns no frame and leaves previous_frame as it is; and the call
\* after it, made at least 1/fps later, in which they succeed returns a frame
C21_FailureNotFatalAsClaimed ==
    [][ captured'.n = captured.n + 1 =>
          /\ (captured'.passed /\ ~captured'.frame_data.some)
                => (~captured'.ret.some /\ previous_frame' = previous_frame)
          /\ ( /\ captured.n > 0 /\ captured.failed_at = captured.at
               /\ fps > 0 => (now - captured.at) * fps >= TicksPerSecond )
                => /\ captured'.passed
                   /\ captured'.frame_data.some => captured'.ret.some ]_vars

\* C21 (amended): a call of capture() in which the grab or the encoding
\* raises returns no frame and leaves previous_frame as it is; and the call
\* after it, made at least 1/fps later, passes the time test of line 19 and,
\* when the grab and the encoding succeed, returns a frame unless change
\* detection is on and the output equals the stored previous frame
C21_FailureNotFatal ==
    [][ captured'.n = captured.n + 1 =>
          /\ (captured'.passed /\ ~captured'.frame_data.some)
                => (~captured'.ret.some /\ previous_frame' = previous_frame)
          /\ ( /\ captured.n > 0 /\ captured.failed_at = captured.at
               /\ fps > 0 => (now - captured.at) * fps >= TicksPerSecond )
                => /\ captured'.passed
                   /\ captured'.frame_data.some
                        => \/ captured'.ret.some
                           \/ /\ captured'.diff /\ previous_frame.some
                              /\ captured'.frame_data.bytes = previous_frame.bytes ]_vars

\* C21 witness: a call failed after a frame had been stored, and a later call,
\* at least 1/fps after the failure, returned a frame; previous_frame had
\* stayed that of the first frame until then
C21_Witness ==
    /\ scenario = "capture" /\ captured.n >= 3 /\ fps > 0
    /\ captured.failed_at > StartTime
    /\ captured.ret.some /\ captured.success_at = captured.at
    /\ captured.at > captured.failed_at
    /\ (captured.at - captured.failed_at) * fps >= TicksPerSecond

(***************************************************************************)
(* Properties of the frame diff.                                           *)
(***************************************************************************)
\* C18: for old_data None, empty or any bytes, and new_data at least as long
\* as old_data, decompress_diff(old_data, compress_diff(old_data, new_data))
\* is new_data
C18_DiffRoundTrip ==
    ( /\ scenario = "diff" /\ reconstructed.set /\ reconstructed.diff = diff_out
      /\ (~old_data.some \/ Len(new_data) >= Len(old_data.bytes)) )
    => reconstructed.err = "none" /\ reconstructed.bytes = new_data

\* C18 witness: a round trip of a longer new_data that differs from old_data
\* in a byte, through a diff with a byte change and a tail
C18_Witness ==
    /\ scenario = "diff" /\ reconstructed.set /\ reconstructed.diff = diff_out
    /\ old_data.some /\ Len(old_data.bytes) = 2 /\ Len(new_data) = 3
    /\ diff_out.kind = "list" /\ Len(diff_out.changes) = 2
    /\ diff_out.changes[1].tag = "pos" /\ diff_out.changes[2].tag = "tail"
    /\ reconstructed.err = "none" /\ reconstructed.bytes = new_data

\* C24: when old_data is given and new_data is shorter than it,
\* decompress_diff(old_data, compress_diff(old_data, new_data)) has the length
\* of old_data, begins with new_data, ends with the bytes of old_data from
\* position len(new_data) on, and is not new_data
C24_ShorterKeepsOldTail ==
    ( /\ scenario = "diff" /\ reconstructed.set /\ reconstructed.diff = diff_out
      /\ old_data.some /\ Len(new_data) < Len(old_data.bytes) )
    => /\ reconstructed.err = "none"
       /\ Len(reconstructed.bytes) = Len(old_data.bytes)
       /\ reconstructed.bytes
             = new_data \o SubSeq(old_data.bytes, Len(new_data) + 1, Len(old_data.bytes))
       /\ reconstructed.bytes # new_data

\* C24 witness: a round trip of a new_data one byte shorter than old_data
\* that differs from it in its first byte
C24_Witness ==
    /\ scenario = "diff" /\ reconstructed.set /\ reconstructed.diff = diff_out
    /\ old_data.some /\ Len(old_data.bytes) = 3 /\ Len(new_data) = 2
    /\ new_data[1] # old_data.bytes[1]
    /\ diff_out.kind = "list" /\ Len(diff_out.changes) >= 1
    /\ reconstructed.err = "none"
    /\ reconstructed.bytes[1] = new_data[1]
    /\ reconstructed.bytes[3] = old_data.bytes[3]

(***************************************************************************)
(* Properties of the client's input path.                                  *)
(***************************************************************************)
\* C15 (as claimed): on the path the client controller uses, a mouse move
\* whose position is that of the event just before it is suppressed: it is
\* not handed to the connection
C15_RepeatedMoveSuppressed ==
    scenario = "input" =>
        \A i \in 2 .. Len(input_log) :
           ( /\ input_log[i].path = "client" /\ input_log[i - 1].path = "client"
             /\ input_log[i].action = "move"
             /\ input_log[i].pos = input_log[i - 1].pos )
           => input_log[i].outcome = "suppressed"

(***************************************************************************)
(* Specifications.                                                         *)
(***************************************************************************)
WireIdle ==
    /\ stream = <<>> /\ peerClosed = FALSE /\ peerReset = FALSE /\ sentLog = <<>>
    /\ rpc = "call" /\ rtype = 0 /\ rlen = 0 /\ rdata = <<>> /\ results = <<>>
    /\ hdrShort = FALSE /\ eofSeen = FALSE /\ splitSeen = FALSE

SendIdle ==
    senders = [t \in SendThreads |-> [pc |-> "idle", msg |-> <<>>, buf |-> <<>>, shorts |-> 0]]

\* NetworkManager.__init__ (lines 9-16): not running, no socket, no callbacks
ConnIdle ==
    /\ running = FALSE /\ sock = "None"
    /\ callbacks = [k \in MessageType |-> "none"]
    /\ sstate = [x \in Sockets |-> "none"]
    /\ inbound = [c \in Sockets |-> <<>>]
    /\ thr = [t \in ThreadIds |->
                 Thread(IF t \in ApiThreads THEN "idle"
                        ELSE IF t = "acc" THEN "new"
                        ELSE IF t = "bc" THEN "tick" ELSE "none",
                        "None", FALSE, FALSE, "none")]
    /\ ncalls = 0 /\ dispatched = <<>> /\ stopDone = FALSE /\ lateWrite = FALSE

\* no capturer in use: the fields as __init__() with its defaults leaves them
CapIdle == CapturerInit(70, 30)

\* no input made yet
InputIdle == last_pos = NoPos /\ sent_events = <<>> /\ input_log = <<>>

\* no call made yet
NotReconstructed == [set |-> FALSE, diff |-> DiffUnset, err |-> "none", bytes |-> <<>>]
DiffIdle ==
    /\ old_data = NoBytes /\ new_data = <<>>
    /\ diff_out = DiffUnset /\ reconstructed = NotReconstructed

AppIdle == CapIdle /\ InputIdle /\ DiffIdle

InitWire ==
    /\ scenario = "wire" /\ WireIdle
    /\ SendIdle /\ ConnIdle /\ AppIdle

NextWire ==
    \/ \E m \in Messages : PeerSend(m[1], m[2])
    \/ \E f \in RawFrames : PeerSendRaw(f.kind, f.text)
    \/ \E how \in CloseKinds : PeerClose(how)
    \/ \E m \in Messages, how \in CloseKinds :
          \E k \in CutPoints(Len(create_message(m[1], m[2], TopLevel).b)) :
             PeerCrash(m[1], m[2], k, how)
    \/ \E k \in 0 .. HeaderLen : ReadHeader(k)
    \/ \E k \in 0 .. Len(stream) : ReadFirst(k)
    \/ \E k \in 0 .. Len(stream) : ReadMore(k)
    \/ ReadReturn
    \/ ReadReset

SpecWire == InitWire /\ [][NextWire]_vars


InitSend == scenario = "send" /\ WireIdle /\ SendIdle /\ ConnIdle /\ AppIdle

NextSend ==
    \/ \E t \in SendThreads, kind \in SendKinds, data \in Payloads :
          SendAllBegin(t, kind, data)
    \/ \E t \in SendThreads : \E k \in 1 .. Len(senders[t].buf) : SendAllWrite(t, k)

SpecSend == InitSend /\ [][NextSend]_vars

\* NetworkManager after __init__, as a server or as a client
InitConn == scenario \in { "server", "client" } /\ WireIdle /\ SendIdle /\ ConnIdle /\ AppIdle

\* start_server / connect and the threads they start
NextStart ==
    \/ StartServerListen
    \/ StartServerBindFails
    \/ StartServerRun
    \/ AcceptTest
    \/ AcceptEnter
    \/ \E p \in Peers : Accept(p)
    \/ AcceptLoopEnds
    \/ ConnectCreate
    \/ ConnectOk
    \/ ConnectRun
    \/ ConnectStart
    \/ ConnectFails
    \/ \E c \in Peers \cup { "C" } : RecvLoopStep(c)
    \/ \E p \in Peers : HandleClientClose(p)

\* the statements of stop(), by whichever thread is inside it
NextStop ==
    \/ \E t \in ThreadIds : StopCheck(t)
    \/ \E t \in ThreadIds : StopSet(t)
    \/ \E t \in ThreadIds : StopTest(t)
    \/ \E t \in ThreadIds : StopClose(t)
    \/ \E t \in ThreadIds : StopClear(t)

\* The life cycle of a connection: start, concurrent callers of stop and
\* send_message, the client's input thread, the receive loops.  The peers
\* send nothing.
NextConn ==
    \/ NextStart
    \/ NextStop
    \/ \E t \in ApiThreads : StopCall(t)
    \/ \E t \in ApiThreads, arg \in Sockets \cup { "None" } : SendCall(t, arg)
    \/ \E t \in ApiThreads, kind \in { MOUSE_EVENT, KEYBOARD_EVENT } : ClientInputEvent(t, kind)
    \/ \E t \in ApiThreads : SendWriteOk(t)
    \/ \E t \in ApiThreads : SendWriteFails(t)

SpecConn == InitConn /\ [][NextConn]_vars

\* The threads of the applications above a NetworkManager: the server's
\* broadcast thread and the client's input thread, beside start_server or
\* connect, the receive loops and one caller of stop.
NextBroadcast ==
    \/ NextStart
    \/ NextStop
    \/ StopCall("t1")
    \/ \E grab \in { SomeBytes(b) : b \in Frames } \cup { NoBytes } : BroadcastScreen(grab)
    \/ BroadcastSend
    \/ \E d \in 2 .. 3 : BroadcastSleep(d)
    \/ \E kind \in { MOUSE_EVENT, KEYBOARD_EVENT } : ClientInputEvent("t1", kind)
    \/ \E t \in { "t1", "bc" } : SendWriteOk(t)
    \/ \E t \in { "t1", "bc" } : SendWriteFails(t)

SpecBroadcast == InitConn /\ [][NextBroadcast]_vars

\* Receiving: callbacks are registered, peers send messages, the receive
\* loops run.  Nobody calls stop or send_message from outside.
NextRecv ==
    \/ NextStart
    \/ NextStop
    \/ \E h \in { "ok", "raises" } : RegisterCallback(MOUSE_EVENT, h)
    \/ \E c \in Peers \cup { "C" }, kind \in ConnKinds : PeerWrites(c, kind)

SpecRecv == InitConn /\ [][NextRecv]_vars

\* a capturer made with any of the arguments
InitCapture ==
    /\ scenario = "capture" /\ WireIdle /\ SendIdle /\ ConnIdle /\ InputIdle /\ DiffIdle
    /\ \E q \in QualityArgs, f \in FpsArgs : CapturerInit(q, f)

NextCapture ==
    \/ ClockAdvance
    \/ \E diff \in BOOLEAN, grab \in { SomeBytes(b) : b \in Frames } \cup { NoBytes } :
          Capture(diff, grab)
    \/ \E r \in { "None", "R" } : SetRegion(r)
    \/ \E q \in QualityArgs : SetQuality(q)
    \/ \E f \in FpsArgs \cup { 0 } : SetFps(f)

SpecCapture == InitCapture /\ [][NextCapture]_vars

\* one round trip for any old_data (None included) and new_data
InitDiff ==
    /\ scenario = "diff" /\ WireIdle /\ SendIdle /\ ConnIdle /\ CapIdle /\ InputIdle
    /\ old_data \in { NoBytes } \cup { SomeBytes(b) : b \in BytesUpTo(MaxDataLen) }
    /\ new_data \in BytesUpTo(MaxDataLen)
    /\ diff_out = DiffUnset /\ reconstructed = NotReconstructed

NextDiff ==
    \/ CompressDiff
    \/ \E diff \in { diff_out } \cup GivenDiffs : DecompressDiff(diff)

SpecDiff == InitDiff /\ [][NextDiff]_vars

\* mouse events reaching the client controller and an InputSender
InitInput ==
    /\ scenario = "input" /\ WireIdle /\ SendIdle /\ ConnIdle /\ CapIdle /\ DiffIdle
    /\ InputIdle

NextInput ==
    \/ \E type \in { "MOUSEMOTION", "MOUSEBUTTONDOWN", "MOUSEBUTTONUP" },
          pos \in Positions, b \in { 1, 2, 3 } : ClientMouseEvent(type, pos, b)
    \/ \E action \in MouseActions, pos \in Positions \cup { NoPos },
          button \in { "left", "right" }, sub_action \in { "None", "down" } :
          InputSenderMouseEvent(action, pos, button, sub_action)

SpecInput == InitInput /\ [][NextInput]_vars

\* the wire protocol and the receiving side of a connection together
Init == InitWire \/ InitConn
Next == NextWire \/ NextRecv
Spec == Init /\ [][Next]_vars

====
